---- MODULE Spec2Model ----
(***************************************************************************)
(* Hand reconstruction and action-sequence statistics of the poker log     *)
(* analyser: HandParser.parse_hands (poker_data.py),                       *)
(* DetailedHandAnalyzer.parse_hands_with_actions and                       *)
(* DetailedHandAnalyzer.calculate_advanced_stats (poker_advanced_stats.py).*)
(*                                                                         *)
(* Python's None is the string "None"; a dict with insertion order is a    *)
(* sequence of records with distinct names; a set is a set.                *)
(***************************************************************************)
EXTENDS Integers, Sequences, FiniteSets, TLC

VARIABLES
    pc,                     \* position of calculate_advanced_stats: idle, loop, done, raised
    player_full_to_unified, \* PlayerMapper.player_full_to_unified
    exclude_heads_up,       \* argument of the current call
    hands,                  \* argument of the current call: the list of hands
    filtered_hands,         \* local of the current call
    idx,                    \* number of filtered hands the main loop has analysed
    player_stats,           \* local of the current call: canonical name -> counters
    before,                 \* player_stats at the start of the last loop iteration
    results,                \* the table the last completed call returned
    memo,                   \* arguments and table of the first completed call
    entries,                \* number of log entries both reconstructors have consumed
    row,                    \* info of the loops: the entry read last, as extract_hand_info gave it
    hp,                     \* HandParser.parse_hands: [hands, current_hand]
    da,                     \* parse_hands_with_actions: [hands, current_hand, current_street]
    shows                   \* what the log said: the players of the show entries of the
                            \* open hand, and of each hand emitted so far

vars == <<pc, player_full_to_unified, exclude_heads_up, hands, filtered_hands, idx,
          player_stats, before, results, memo, entries, row, hp, da, shows>>

analyzerVars == <<pc, player_full_to_unified, exclude_heads_up, hands, filtered_hands,
                  idx, player_stats, before, results, memo>>

parserVars == <<entries, row, hp, da, shows>>

None == "None"

(* Raw player tokens of the log ("nick @ id"). *)
Raw == {"P1", "P2", "P3"}

(* Keys of player_stats: a raw token that resolves to itself, or a unified name. *)
Names == Raw \cup {"Hero"}

(***************************************************************************)
(* Bounds of the model.                                                    *)
(***************************************************************************)
MaxPre == 4         \* longest preflop action list of a drawn hand
MaxFlop == 3        \* longest flop action list of a drawn hand
MaxHands == 3       \* longest list of hands handed to one batch call
MaxEntries == 6     \* log entries fed to the reconstructors
MaxRows == 4        \* log entries of a log with entries of every type

SeqsUpTo(S, n) == UNION {[1..k -> S] : k \in 0..n}

(***************************************************************************)
(* PlayerMapper.get_unified_name: dict.get(player_str, player_str).        *)
(* A mapping is a function from some of the raw tokens to names.           *)
(***************************************************************************)
get_unified_name(mapping, player_str) ==
    IF player_str \in DOMAIN mapping THEN mapping[player_str] ELSE player_str

(* The mappings of the model: nothing mapped, and two accounts of one person. *)
Mappings == { [p \in {} |-> "Hero"], [p \in {"P2", "P3"} |-> "Hero"] }

(***************************************************************************)
(* The counters record of calculate_advanced_stats (the defaultdict's      *)
(* factory).  A name the code never touched reads as this record.          *)
(***************************************************************************)
Fields == {"hands_played", "flop_hands", "turn_hands", "vpip_count", "pfr_count",
           "faced_raise_count", "threebets", "faced_3bet_count", "fourbets",
           "called_3bet", "cbet_opportunities", "cbets_made", "faced_cbet_count",
           "folded_to_cbet", "turn_cbet_opportunities", "turn_cbets_made",
           "faced_turn_cbet_count", "folded_to_turn_cbet",
           "threebetpot_opportunities", "cbet_after_3bet_made",
           "check_after_3bet_made", "donk_bet_opportunities", "donk_bets_made",
           "pfr_checked_to_opportunities", "pfr_checked_to_bets",
           "check_raise_opportunities", "check_raises_made", "showdown_count"}

ZeroCounters == [f \in Fields |-> 0]

ZeroStats == [n \in Names |-> ZeroCounters]

(***************************************************************************)
(* A hand as the reconstructors build it.  players is the ordered dict     *)
(* name -> {initial_stack, invested, hole_cards}; hole_cards is None or    *)
(* the list of card tokens the show line carried.                          *)
(***************************************************************************)
PlayerNames(hand) == {hand.players[i].name : i \in DOMAIN hand.players}

ActionPlayers(actions) == {actions[i].player : i \in DOMAIN actions}

(* Python truth of a player token or name: None and "" are false. *)
Truthy(x) == x # None /\ x # ""

(* unified_players = {p: get_unified_name(p) for p in players} *)
UnifiedPlayers(mapping, hand) ==
    [p \in PlayerNames(hand) |-> get_unified_name(mapping, p)]

(* for player in S: player_stats[unified_players[player]][f] += 1 *)
Credit(stats, unified_players, S, f) ==
    [n \in Names |->
        [stats[n] EXCEPT ![f] =
            @ + Cardinality({p \in S \cap DOMAIN unified_players : unified_players[p] = n})]]

(* player_stats[unified][f] += 1 for one name *)
Bump(stats, unified, f) == [stats EXCEPT ![unified][f] = @ + 1]


(***************************************************************************)
(* DetailedHandAnalyzer._analyze_preflop_detailed.                         *)
(***************************************************************************)
PreflopStart ==
    [players_invested |-> {}, first_raiser |-> None, players_facing_raise |-> {},
     three_bettors |-> {}, players_facing_3bet |-> {}, four_bettors |-> {},
     players_called_3bet |-> {}, raise_count |-> 0]

(* The inner loop of the first raise: the players of the actions in front of
   the first list element equal to the raise, other than the raiser. *)
ActedBefore(actions, action) ==
    LET stop == CHOOSE j \in DOMAIN actions :
                    /\ actions[j] = action
                    /\ \A k \in 1..(j - 1) : actions[k] # action
    IN  {actions[k].player :
            k \in {k \in 1..(stop - 1) : /\ Truthy(actions[k].player)
                                         /\ actions[k].player # action.player}}

(* PreflopRaise with the raiser remembered at every raise, not only the first. *)
PreflopRaise_LastRaiser(st, actions, action) ==
    LET player == action.player IN
    IF st.raise_count = 1 THEN
        [st EXCEPT !.first_raiser = player,
                   !.players_facing_raise = @ \cup ActedBefore(actions, action)]
    ELSE IF st.raise_count = 2 THEN
        [st EXCEPT !.first_raiser = player,
                   !.players_facing_raise = @ \cup {player},
                   !.three_bettors = @ \cup {player},
                   !.players_facing_3bet =
                        IF Truthy(st.first_raiser) THEN @ \cup {st.first_raiser} ELSE @]
    ELSE IF st.raise_count = 3 THEN
        [st EXCEPT !.first_raiser = player,
                   !.players_facing_3bet = @ \cup {player},
                   !.four_bettors = @ \cup {player}]
    ELSE
        [st EXCEPT !.first_raiser = player,
                   !.players_facing_3bet = @ \cup {player}]

(* PreflopRaise with "elif raise_count >= 2": every re-raise counts as a 3-bet. *)
PreflopRaise_EveryReraise(st, actions, action) ==
    LET player == action.player IN
    IF st.raise_count = 1 THEN
        [st EXCEPT !.first_raiser = player,
                   !.players_facing_raise = @ \cup ActedBefore(actions, action)]
    ELSE
        [st EXCEPT !.players_facing_raise = @ \cup {player},
                   !.three_bettors = @ \cup {player},
                   !.players_facing_3bet =
                        IF Truthy(st.first_raiser) THEN @ \cup {st.first_raiser} ELSE @]

(* "if action_type == 'raise':" with raise_count already incremented in st. *)
PreflopRaise(st, actions, action) ==
    LET player == action.player IN
    IF st.raise_count = 1 THEN
        [st EXCEPT !.first_raiser = player,
                   !.players_facing_raise = @ \cup ActedBefore(actions, action)]
    ELSE IF st.raise_count = 2 THEN
        [st EXCEPT !.players_facing_raise = @ \cup {player},
                   !.three_bettors = @ \cup {player},
                   !.players_facing_3bet =
                        IF Truthy(st.first_raiser) THEN @ \cup {st.first_raiser} ELSE @]
    ELSE IF st.raise_count = 3 THEN
        [st EXCEPT !.players_facing_3bet = @ \cup {player},
                   !.four_bettors = @ \cup {player}]
    ELSE
        [st EXCEPT !.players_facing_3bet = @ \cup {player}]

(* PreflopCall with "elif raise_count >= 2": a call of a 4-bet counts as a
   call of a 3-bet. *)
PreflopCall_AnyReraise(st, player) ==
    IF st.raise_count = 1 THEN
        [st EXCEPT !.players_facing_raise = @ \cup {player}]
    ELSE IF st.raise_count >= 2 THEN
        [st EXCEPT !.players_facing_3bet = @ \cup {player},
                   !.players_called_3bet = @ \cup {player}]
    ELSE st

(* "if action_type == 'call':" *)
PreflopCall(st, player) ==
    IF st.raise_count = 1 THEN
        [st EXCEPT !.players_facing_raise = @ \cup {player}]
    ELSE IF st.raise_count = 2 THEN
        [st EXCEPT !.players_facing_3bet = @ \cup {player},
                   !.players_called_3bet = @ \cup {player}]
    ELSE st

(* PreflopAction with a raise left out of the voluntary actions. *)
PreflopAction_RaiseNotVoluntary(st, actions, action) ==
    LET player == action.player
        action_type == action.action_type
        s1 == IF action_type \in {"call", "bet"}
              THEN [st EXCEPT !.players_invested = @ \cup {player}] ELSE st
        s2 == IF action_type = "raise"
              THEN PreflopRaise([s1 EXCEPT !.raise_count = @ + 1], actions, action)
              ELSE s1
        s3 == IF action_type = "call" THEN PreflopCall(s2, player) ELSE s2
    IN  IF ~Truthy(player) THEN st ELSE s3

(* PreflopAction with the blinds among the voluntary actions: whoever posts
   a blind has put money in. *)
PreflopAction_BlindsVoluntary(st, actions, action) ==
    LET player == action.player
        action_type == action.action_type
        s1 == IF action_type \in {"small_blind", "big_blind", "call", "bet", "raise"}
              THEN [st EXCEPT !.players_invested = @ \cup {player}] ELSE st
        s2 == IF action_type = "raise"
              THEN PreflopRaise([s1 EXCEPT !.raise_count = @ + 1], actions, action)
              ELSE s1
        s3 == IF action_type = "call" THEN PreflopCall(s2, player) ELSE s2
    IN  IF ~Truthy(player) THEN st ELSE s3

(* The body of "for action in preflop_actions:". *)
PreflopAction(st, actions, action) ==
    LET player == action.player
        action_type == action.action_type
        s1 == IF action_type \in {"call", "bet", "raise"}
              THEN [st EXCEPT !.players_invested = @ \cup {player}] ELSE st
        s2 == IF action_type = "raise"
              THEN PreflopRaise([s1 EXCEPT !.raise_count = @ + 1], actions, action)
              ELSE s1
        s3 == IF action_type = "call" THEN PreflopCall(s2, player) ELSE s2
    IN  IF ~Truthy(player) THEN st ELSE s3

RECURSIVE PreflopScan(_, _, _)
PreflopScan(actions, i, st) ==
    IF i > Len(actions) THEN st
    ELSE PreflopScan(actions, i + 1, PreflopAction(st, actions, actions[i]))

(* "# Update stats": the loop over hand['players'].keys(). *)
PreflopUpdate(stats, unified_players, st) ==
    LET s1 == Credit(stats, unified_players, st.players_invested, "vpip_count")
        s2 == Credit(s1, unified_players, {st.first_raiser}, "pfr_count")
        s3 == Credit(s2, unified_players, st.players_facing_raise, "faced_raise_count")
        s4 == Credit(s3, unified_players,
                     st.players_facing_raise \cap st.three_bettors, "threebets")
        s5 == Credit(s4, unified_players, st.players_facing_3bet, "faced_3bet_count")
        s6 == Credit(s5, unified_players,
                     st.players_facing_3bet \cap st.four_bettors, "fourbets")
    IN  Credit(s6, unified_players,
               st.players_facing_3bet \cap st.players_called_3bet, "called_3bet")

analyze_preflop_detailed(hand, unified_players, stats) ==
    PreflopUpdate(stats, unified_players,
                  PreflopScan(hand.preflop_actions, 1, PreflopStart))

(***************************************************************************)
(* DetailedHandAnalyzer._analyze_postflop_detailed.                        *)
(***************************************************************************)
(* unified_players.get(player) is truthy *)
Known(unified_players, player) ==
    player \in DOMAIN unified_players /\ Truthy(unified_players[player])

(* The smallest member of a non-empty set of indexes; 0 for the empty set. *)
First(I) == IF I = {} THEN 0 ELSE CHOOSE i \in I : \A j \in I : i <= j

(* The player of the k-th 'raise' of the preflop list, None without one
   (pfr_player for k = 1, three_bettor for k = 2). *)
RECURSIVE NthRaise(_, _, _)
NthRaise(actions, k, i) ==
    IF i > Len(actions) THEN 0
    ELSE IF actions[i].action_type = "raise"
         THEN IF k = 1 THEN i ELSE NthRaise(actions, k - 1, i + 1)
         ELSE NthRaise(actions, k, i + 1)

NthRaiser(actions, k) ==
    LET i == NthRaise(actions, k, 1) IN IF i = 0 THEN None ELSE actions[i].player

(* "elif raise_count == 2": the preflop raise that is the 3-bet, the last
   one the postflop analysis looks for. *)
ThreeBet == 2

(* The aggressor as the player of the last preflop raise: the 4-bettor
   takes the place of the 3-bettor. *)
Aggressor_LastRaiser(hand) ==
    LET I == {i \in DOMAIN hand.preflop_actions :
                hand.preflop_actions[i].action_type = "raise"}
    IN  IF I = {} THEN None
        ELSE hand.preflop_actions[CHOOSE i \in I : \A j \in I : j <= i].player

(* aggressor = three_bettor if three_bettor else pfr_player *)
Aggressor(hand) ==
    LET three_bettor == NthRaiser(hand.preflop_actions, ThreeBet)
    IN  IF Truthy(three_bettor) THEN three_bettor
        ELSE NthRaiser(hand.preflop_actions, 1)

(* is_3bet_pot = three_bettor is not None *)
Is3betPot(hand) == NthRaiser(hand.preflop_actions, ThreeBet) # None

(* The first loop over the flop list: it stops at the first bet or raise. *)
FlopStart ==
    [flop_first_actor |-> None, flop_first_action_type |-> None,
     flop_first_bettor |-> None, players_checked |-> {}]

RECURSIVE FlopLoop(_, _, _)
FlopLoop(actions, i, st) ==
    IF i > Len(actions) THEN st
    ELSE
        LET player == actions[i].player
            action_type == actions[i].action_type
            s1 == IF st.flop_first_actor = None
                  THEN [st EXCEPT !.flop_first_actor = player,
                                  !.flop_first_action_type = action_type]
                  ELSE st
            s2 == IF action_type = "check"
                  THEN [s1 EXCEPT !.players_checked = @ \cup {player}] ELSE s1
        IN  IF ~Truthy(player) THEN FlopLoop(actions, i + 1, st)
            ELSE IF action_type \in {"bet", "raise"}
                 THEN [s2 EXCEPT !.flop_first_bettor = player]
                 ELSE FlopLoop(actions, i + 1, s2)

(* The donk bet the first loop credits at the first flop bet. *)
FlopDonk(stats, unified_players, aggressor, fl) ==
    IF /\ fl.flop_first_bettor # None
       /\ Truthy(aggressor)
       /\ fl.flop_first_bettor # aggressor
       /\ Known(unified_players, fl.flop_first_bettor)
    THEN Bump(Bump(stats, unified_players[fl.flop_first_bettor], "donk_bet_opportunities"),
              unified_players[fl.flop_first_bettor], "donk_bets_made")
    ELSE stats

(* FirstResponder without "or player == aggressor": the aggressor's own next
   action counts as the response. *)
FirstResponder_AnyPlayer(actions, aggressor) ==
    LET cbet == First({i \in DOMAIN actions :
                        /\ actions[i].player = aggressor
                        /\ actions[i].action_type \in {"bet", "raise"}})
    IN  IF cbet = 0 THEN 0
        ELSE First({j \in DOMAIN actions : j > cbet /\ Truthy(actions[j].player)})

(* "# Track who faced the cbet": the index of the first action, behind the
   aggressor's first bet or raise, of a player other than the aggressor. *)
FirstResponder(actions, aggressor) ==
    LET cbet == First({i \in DOMAIN actions :
                        /\ actions[i].player = aggressor
                        /\ actions[i].action_type \in {"bet", "raise"}})
    IN  IF cbet = 0 THEN 0
        ELSE First({j \in DOMAIN actions :
                        /\ j > cbet
                        /\ Truthy(actions[j].player)
                        /\ actions[j].player # aggressor})

(* "# Track who faced the cbet" without the break behind the first
   responder: every action of another player behind the bet is credited. *)
RECURSIVE FacedCbetFrom(_, _, _, _, _, _, _)
FacedCbetFrom(stats, unified_players, actions, aggressor, faced, folded, j) ==
    IF j > Len(actions) THEN [raised |-> FALSE, stats |-> stats]
    ELSE IF ~Truthy(actions[j].player) \/ actions[j].player = aggressor
    THEN FacedCbetFrom(stats, unified_players, actions, aggressor, faced, folded, j + 1)
    ELSE IF actions[j].player \notin DOMAIN unified_players
    THEN [raised |-> TRUE, stats |-> stats]
    ELSE LET unified == unified_players[actions[j].player]
             s1 == Bump(stats, unified, faced)
             s2 == IF actions[j].action_type = "fold"
                   THEN Bump(s1, unified, folded) ELSE s1
         IN  FacedCbetFrom(s2, unified_players, actions, aggressor, faced, folded, j + 1)

FacedCbet_EveryResponder(stats, unified_players, actions, aggressor, faced, folded) ==
    LET cbet == First({i \in DOMAIN actions :
                        /\ actions[i].player = aggressor
                        /\ actions[i].action_type \in {"bet", "raise"}})
    IN  IF cbet = 0 THEN [raised |-> FALSE, stats |-> stats]
        ELSE FacedCbetFrom(stats, unified_players, actions, aggressor,
                           faced, folded, cbet + 1)

(* FacedCbet with the fold counted in place of the faced cbet, not on top of
   it. *)
FacedCbet_FoldOnly(stats, unified_players, actions, aggressor, faced, folded) ==
    LET r == FirstResponder(actions, aggressor) IN
    IF r = 0 THEN [raised |-> FALSE, stats |-> stats]
    ELSE IF actions[r].player \notin DOMAIN unified_players
    THEN [raised |-> TRUE, stats |-> stats]
    ELSE LET unified == unified_players[actions[r].player]
         IN  [raised |-> FALSE,
              stats |-> IF actions[r].action_type = "fold"
                        THEN Bump(stats, unified, folded)
                        ELSE Bump(stats, unified, faced)]

(* The credit of the first responder; unified_players[player] raises KeyError
   for a player who is not in the hand's players. *)
FacedCbet(stats, unified_players, actions, aggressor, faced, folded) ==
    LET r == FirstResponder(actions, aggressor) IN
    IF r = 0 THEN [raised |-> FALSE, stats |-> stats]
    ELSE IF actions[r].player \notin DOMAIN unified_players
    THEN [raised |-> TRUE, stats |-> stats]
    ELSE LET unified == unified_players[actions[r].player]
             s1 == Bump(stats, unified, faced)
         IN  [raised |-> FALSE,
              stats |-> IF actions[r].action_type = "fold"
                        THEN Bump(s1, unified, folded) ELSE s1]

(* FlopCbet without the count of the made cbet: the bet of the aggressor
   counts as an opportunity alone. *)
FlopCbet_OpportunityOnly(stats, unified_players, actions, aggressor, is_3bet_pot, fl) ==
    LET unified_aggressor == unified_players[aggressor]
        none == [raised |-> FALSE, stats |-> stats, flop_cbet_made |-> FALSE]
    IN
    IF ~(Truthy(aggressor) /\ Known(unified_players, aggressor)
            /\ aggressor \in ActionPlayers(actions))
    THEN none
    ELSE IF aggressor = fl.flop_first_bettor THEN
        LET s1 == IF is_3bet_pot
                  THEN Bump(stats, unified_aggressor, "threebetpot_opportunities")
                  ELSE Bump(stats, unified_aggressor, "cbet_opportunities")
            f == FacedCbet(s1, unified_players, actions, aggressor,
                           "faced_cbet_count", "folded_to_cbet")
        IN  [raised |-> f.raised, stats |-> f.stats, flop_cbet_made |-> TRUE]
    ELSE IF is_3bet_pot THEN
        LET s1 == Bump(stats, unified_aggressor, "threebetpot_opportunities")
        IN  [none EXCEPT !.stats =
                IF aggressor \in fl.players_checked
                THEN Bump(s1, unified_aggressor, "check_after_3bet_made") ELSE s1]
    ELSE [none EXCEPT !.stats = Bump(stats, unified_aggressor, "cbet_opportunities")]

(* The cbet block with an if in place of each elif: the branches are tried
   one after the other, and more than one can credit the aggressor. *)
FlopCbet_BranchesOverlap(stats, unified_players, actions, aggressor, is_3bet_pot, fl) ==
    LET unified_aggressor == unified_players[aggressor]
        none == [raised |-> FALSE, stats |-> stats, flop_cbet_made |-> FALSE]
    IN
    IF ~(Truthy(aggressor) /\ Known(unified_players, aggressor)
            /\ aggressor \in ActionPlayers(actions))
    THEN none
    ELSE
        LET b1 == IF aggressor = fl.flop_first_bettor
                  THEN LET s1 == IF is_3bet_pot
                                 THEN Bump(Bump(stats, unified_aggressor,
                                                "threebetpot_opportunities"),
                                           unified_aggressor, "cbet_after_3bet_made")
                                 ELSE Bump(Bump(stats, unified_aggressor,
                                                "cbet_opportunities"),
                                           unified_aggressor, "cbets_made")
                           f == FacedCbet(s1, unified_players, actions, aggressor,
                                          "faced_cbet_count", "folded_to_cbet")
                       IN  [raised |-> f.raised, stats |-> f.stats,
                            flop_cbet_made |-> TRUE]
                  ELSE none
            s2 == IF /\ fl.flop_first_actor = aggressor
                     /\ fl.flop_first_action_type = "check"
                     /\ is_3bet_pot
                  THEN Bump(Bump(b1.stats, unified_aggressor,
                                 "threebetpot_opportunities"),
                            unified_aggressor, "check_after_3bet_made")
                  ELSE b1.stats
            s3 == IF aggressor = fl.flop_first_bettor THEN s2
                  ELSE IF is_3bet_pot
                  THEN LET s == Bump(s2, unified_aggressor, "threebetpot_opportunities")
                       IN  IF aggressor \in fl.players_checked
                           THEN Bump(s, unified_aggressor, "check_after_3bet_made")
                           ELSE s
                  ELSE Bump(s2, unified_aggressor, "cbet_opportunities")
        IN  [b1 EXCEPT !.stats = IF b1.raised THEN b1.stats ELSE s3]

(* "# Track cbet opportunities for aggressor" *)
FlopCbet(stats, unified_players, actions, aggressor, is_3bet_pot, fl) ==
    LET unified_aggressor == unified_players[aggressor]
        none == [raised |-> FALSE, stats |-> stats, flop_cbet_made |-> FALSE]
    IN
    IF ~(Truthy(aggressor) /\ Known(unified_players, aggressor)
            /\ aggressor \in ActionPlayers(actions))
    THEN none
    ELSE IF aggressor = fl.flop_first_bettor THEN
        LET s1 == IF is_3bet_pot
                  THEN Bump(Bump(stats, unified_aggressor, "threebetpot_opportunities"),
                            unified_aggressor, "cbet_after_3bet_made")
                  ELSE Bump(Bump(stats, unified_aggressor, "cbet_opportunities"),
                            unified_aggressor, "cbets_made")
            f == FacedCbet(s1, unified_players, actions, aggressor,
                           "faced_cbet_count", "folded_to_cbet")
        IN  [raised |-> f.raised, stats |-> f.stats, flop_cbet_made |-> TRUE]
    ELSE IF /\ fl.flop_first_actor = aggressor
            /\ fl.flop_first_action_type = "check"
            /\ is_3bet_pot
    THEN [none EXCEPT !.stats =
            Bump(Bump(stats, unified_aggressor, "threebetpot_opportunities"),
                 unified_aggressor, "check_after_3bet_made")]
    ELSE IF is_3bet_pot THEN
        LET s1 == Bump(stats, unified_aggressor, "threebetpot_opportunities")
        IN  [none EXCEPT !.stats =
                IF aggressor \in fl.players_checked
                THEN Bump(s1, unified_aggressor, "check_after_3bet_made") ELSE s1]
    ELSE [none EXCEPT !.stats = Bump(stats, unified_aggressor, "cbet_opportunities")]

(* for i in I: player_stats[unified_players[actions[i].player]][f] += 1 *)
CreditAt(stats, unified_players, actions, I, f) ==
    [n \in Names |->
        [stats[n] EXCEPT ![f] =
            @ + Cardinality({i \in I : unified_players[actions[i].player] = n})]]

(* "# Track donk bet opportunities for non-aggressors" *)
DonkOpportunities(stats, unified_players, hand, aggressor) ==
    IF Truthy(aggressor)
    THEN Credit(stats, unified_players,
                {p \in PlayerNames(hand) :
                    /\ p # aggressor
                    /\ p \in ActionPlayers(hand.flop_actions)
                    /\ Known(unified_players, p)},
                "donk_bet_opportunities")
    ELSE stats

(* "# Track "Bet when Checked To" opportunities for non-aggressors": per
   player, the index of the first own action behind an aggressor's check. *)
CheckedToAt(actions, aggressor, player) ==
    LET check == First({i \in DOMAIN actions :
                         /\ actions[i].player = aggressor
                         /\ actions[i].action_type = "check"})
    IN  IF check = 0 THEN 0
        ELSE First({j \in DOMAIN actions : j > check /\ actions[j].player = player})

CheckedTo(stats, unified_players, hand, aggressor, fl) ==
    LET actions == hand.flop_actions
        at == {CheckedToAt(actions, aggressor, p) :
                p \in {p \in PlayerNames(hand) :
                        /\ p # aggressor
                        /\ p \in ActionPlayers(actions)
                        /\ Known(unified_players, p)}} \ {0}
        s1 == CreditAt(stats, unified_players, actions, at,
                       "pfr_checked_to_opportunities")
    IN  IF Truthy(aggressor) /\ aggressor \in fl.players_checked
        THEN CreditAt(s1, unified_players, actions,
                      {j \in at : actions[j].action_type \in {"bet", "raise"}},
                      "pfr_checked_to_bets")
        ELSE stats

(* NextOwnAction without "if next_action['player'] == player": the action
   that follows the check, whoever makes it. *)
NextOwnAction_AnyPlayer(actions, i) ==
    First({j \in DOMAIN actions : j > i})

(* "# Check raise analysis": per check, the index of the same player's next
   action. *)
NextOwnAction(actions, i) ==
    First({j \in DOMAIN actions : j > i /\ actions[j].player = actions[i].player})

(* CheckRaise without "stats[unified]['check_raise_opportunities'] += 1":
   the raise behind a check is counted and the opportunity is not. *)
CheckRaise_NoOpportunity(stats, unified_players, actions) ==
    LET checks == {i \in DOMAIN actions :
                    /\ Truthy(actions[i].player)
                    /\ actions[i].action_type = "check"
                    /\ Known(unified_players, actions[i].player)
                    /\ NextOwnAction(actions, i) # 0}
    IN  CreditAt(stats, unified_players, actions,
                 {i \in checks :
                    actions[NextOwnAction(actions, i)].action_type = "raise"},
                 "check_raises_made")

CheckRaise(stats, unified_players, actions) ==
    LET checks == {i \in DOMAIN actions :
                    /\ Truthy(actions[i].player)
                    /\ actions[i].action_type = "check"
                    /\ Known(unified_players, actions[i].player)
                    /\ NextOwnAction(actions, i) # 0}
        s1 == CreditAt(stats, unified_players, actions, checks,
                       "check_raise_opportunities")
    IN  CreditAt(s1, unified_players, actions,
                 {i \in checks :
                    actions[NextOwnAction(actions, i)].action_type = "raise"},
                 "check_raises_made")

(* The turn block under "if hand['turn_actions']:" alone: the turn is
   analysed whether or not the aggressor made a cbet on the flop. *)
TurnCbet_AnyFlop(stats, unified_players, hand, aggressor, flop_cbet_made) ==
    LET actions == hand.turn_actions
        bet == First({i \in DOMAIN actions : actions[i].action_type \in {"bet", "raise"}})
        turn_first_aggressor == IF bet = 0 THEN None ELSE actions[bet].player
        s1 == Credit(stats, unified_players,
                     PlayerNames(hand) \cap ActionPlayers(actions), "turn_hands")
        unified_aggressor == unified_players[aggressor]
    IN
    IF actions = <<>> THEN [raised |-> FALSE, stats |-> stats]
    ELSE IF aggressor = turn_first_aggressor THEN
        IF Known(unified_players, aggressor)
        THEN FacedCbet(Bump(Bump(s1, unified_aggressor, "turn_cbet_opportunities"),
                            unified_aggressor, "turn_cbets_made"),
                       unified_players, actions, aggressor,
                       "faced_turn_cbet_count", "folded_to_turn_cbet")
        ELSE [raised |-> FALSE, stats |-> s1]
    ELSE IF /\ Truthy(aggressor)
            /\ aggressor \in ActionPlayers(actions)
            /\ Known(unified_players, aggressor)
    THEN [raised |-> FALSE,
          stats |-> Bump(s1, unified_aggressor, "turn_cbet_opportunities")]
    ELSE [raised |-> FALSE, stats |-> s1]

(* "# TURN CBET (DOUBLE BARREL) ANALYSIS" *)
(* The turn block with the opportunity of the aggressor who acts on the
   turn without the first bet given to every player who acts on the turn. *)
TurnCbet_EveryActor(stats, unified_players, hand, aggressor, flop_cbet_made) ==
    LET actions == hand.turn_actions
        bet == First({i \in DOMAIN actions : actions[i].action_type \in {"bet", "raise"}})
        turn_first_aggressor == IF bet = 0 THEN None ELSE actions[bet].player
        s1 == Credit(stats, unified_players,
                     PlayerNames(hand) \cap ActionPlayers(actions), "turn_hands")
        unified_aggressor == unified_players[aggressor]
    IN
    IF ~(flop_cbet_made /\ actions # <<>>) THEN [raised |-> FALSE, stats |-> stats]
    ELSE IF aggressor = turn_first_aggressor THEN
        IF Known(unified_players, aggressor)
        THEN FacedCbet(Bump(Bump(s1, unified_aggressor, "turn_cbet_opportunities"),
                            unified_aggressor, "turn_cbets_made"),
                       unified_players, actions, aggressor,
                       "faced_turn_cbet_count", "folded_to_turn_cbet")
        ELSE [raised |-> FALSE, stats |-> s1]
    ELSE IF /\ Truthy(aggressor)
            /\ aggressor \in ActionPlayers(actions)
            /\ Known(unified_players, aggressor)
    THEN [raised |-> FALSE,
          stats |-> Credit(s1, unified_players,
                           PlayerNames(hand) \cap ActionPlayers(actions),
                           "turn_cbet_opportunities")]
    ELSE [raised |-> FALSE, stats |-> s1]

TurnCbet(stats, unified_players, hand, aggressor, flop_cbet_made) ==
    LET actions == hand.turn_actions
        bet == First({i \in DOMAIN actions : actions[i].action_type \in {"bet", "raise"}})
        turn_first_aggressor == IF bet = 0 THEN None ELSE actions[bet].player
        s1 == Credit(stats, unified_players,
                     PlayerNames(hand) \cap ActionPlayers(actions), "turn_hands")
        unified_aggressor == unified_players[aggressor]
    IN
    IF ~(flop_cbet_made /\ actions # <<>>) THEN [raised |-> FALSE, stats |-> stats]
    ELSE IF aggressor = turn_first_aggressor THEN
        IF Known(unified_players, aggressor)
        THEN FacedCbet(Bump(Bump(s1, unified_aggressor, "turn_cbet_opportunities"),
                            unified_aggressor, "turn_cbets_made"),
                       unified_players, actions, aggressor,
                       "faced_turn_cbet_count", "folded_to_turn_cbet")
        ELSE [raised |-> FALSE, stats |-> s1]
    ELSE IF /\ Truthy(aggressor)
            /\ aggressor \in ActionPlayers(actions)
            /\ Known(unified_players, aggressor)
    THEN [raised |-> FALSE,
          stats |-> Bump(s1, unified_aggressor, "turn_cbet_opportunities")]
    ELSE [raised |-> FALSE, stats |-> s1]

analyze_postflop_detailed(hand, unified_players, stats) ==
    LET aggressor == Aggressor(hand)
        actions == hand.flop_actions
        fl == FlopLoop(actions, 1, FlopStart)
        s1 == Credit(stats, unified_players,
                     PlayerNames(hand) \cap ActionPlayers(actions), "flop_hands")
        s2 == FlopDonk(s1, unified_players, aggressor, fl)
        cb == FlopCbet(s2, unified_players, actions, aggressor, Is3betPot(hand), fl)
        s3 == DonkOpportunities(cb.stats, unified_players, hand, aggressor)
        s4 == CheckedTo(s3, unified_players, hand, aggressor, fl)
        s5 == CheckRaise(s4, unified_players, actions)
    IN  IF actions = <<>> THEN [raised |-> FALSE, stats |-> stats]
        ELSE IF cb.raised THEN [raised |-> TRUE, stats |-> cb.stats]
        ELSE TurnCbet(s5, unified_players, hand, aggressor, cb.flop_cbet_made)

(***************************************************************************)
(* One iteration of "for hand in filtered_hands:" of                       *)
(* calculate_advanced_stats.                                               *)
(***************************************************************************)
(* hole_cards of a player nobody showed: None, in a place where a list of
   cards can stand. *)
NoCards == <<None>>

(* Showdown with "= 1" in place of "+= 1": the counter is a flag of the
   name, set by the first showdown and no higher after the second. *)
Showdown_Flag(stats, unified_players, hand) ==
    LET shown == {hand.players[i].name :
                    i \in {i \in DOMAIN hand.players :
                            /\ hand.players[i].hole_cards # NoCards
                            /\ hand.players[i].hole_cards # <<>>}}
    IN  [n \in Names |->
            IF \E p \in shown : unified_players[p] = n
            THEN [stats[n] EXCEPT !.showdown_count = 1] ELSE stats[n]]

(* "if data.get('hole_cards'):" is false for None and for the empty list. *)
Showdown(stats, unified_players, hand) ==
    Credit(stats, unified_players,
           {hand.players[i].name :
                i \in {i \in DOMAIN hand.players :
                        /\ hand.players[i].hole_cards # NoCards
                        /\ hand.players[i].hole_cards # <<>>}},
           "showdown_count")

AnalyzeHand(mapping, hand, stats) ==
    LET unified_players == UnifiedPlayers(mapping, hand)
        s1 == Credit(stats, unified_players, PlayerNames(hand), "hands_played")
        s2 == analyze_preflop_detailed(hand, unified_players, s1)
        post == analyze_postflop_detailed(hand, unified_players, s2)
    IN  IF post.raised THEN post
        ELSE [raised |-> FALSE, stats |-> Showdown(post.stats, unified_players, hand)]

(* Kept with "num_players <= 2": a table of one player, or of none, is
   filtered with the heads-up hands. *)
Kept_AtMostTwo(flag, hand) == ~(flag /\ Cardinality(PlayerNames(hand)) <= 2)

(* "# Filter hands if needed" *)
Kept(flag, hand) == ~(flag /\ Cardinality(PlayerNames(hand)) = 2)

FilterHands(flag, hs) == SelectSeq(hs, LAMBDA hand : Kept(flag, hand))

(***************************************************************************)
(* "# Calculate percentages": round(count / opportunity * 100, 1) in       *)
(* tenths of a percent, 0 for a zero denominator.  round() rounds the      *)
(* double to the nearest tenth, halves to even.                            *)
(***************************************************************************)
(* Pct with a zero denominator read as "every opportunity taken": 100%. *)
Pct_ZeroAsFull(count, opportunity) ==
    IF opportunity > 0
    THEN LET q == (count * 1000) \div opportunity
             r == (count * 1000) % opportunity
         IN  IF 2 * r > opportunity \/ (2 * r = opportunity /\ q % 2 = 1)
             THEN q + 1 ELSE q
    ELSE 1000

Pct(count, opportunity) ==
    IF opportunity > 0
    THEN LET q == (count * 1000) \div opportunity
             r == (count * 1000) % opportunity
         IN  IF 2 * r > opportunity \/ (2 * r = opportunity /\ q % 2 = 1)
             THEN q + 1 ELSE q
    ELSE 0

Row(stats) ==
    [hands |-> stats.hands_played,
     flop_hands |-> stats.flop_hands,
     turn_hands |-> stats.turn_hands,
     vpip |-> Pct(stats.vpip_count, stats.hands_played),
     pfr |-> Pct(stats.pfr_count, stats.hands_played),
     threebets |-> Pct(stats.threebets, stats.faced_raise_count),
     fourbets |-> Pct(stats.fourbets, stats.faced_3bet_count),
     call_vs_3bet |-> Pct(stats.called_3bet, stats.faced_3bet_count),
     cbet |-> Pct(stats.cbets_made, stats.cbet_opportunities),
     fold_to_cbet |-> Pct(stats.folded_to_cbet, stats.faced_cbet_count),
     turn_cbet |-> Pct(stats.turn_cbets_made, stats.turn_cbet_opportunities),
     fold_to_turn_cbet |-> Pct(stats.folded_to_turn_cbet, stats.faced_turn_cbet_count),
     cbet_after_3bet |-> Pct(stats.cbet_after_3bet_made, stats.threebetpot_opportunities),
     check_after_3bet |-> Pct(stats.check_after_3bet_made, stats.threebetpot_opportunities),
     donk_bet |-> Pct(stats.donk_bets_made, stats.donk_bet_opportunities),
     bet_when_checked_to |-> Pct(stats.pfr_checked_to_bets, stats.pfr_checked_to_opportunities),
     check_raise |-> Pct(stats.check_raises_made, stats.check_raise_opportunities),
     wtsd |-> Pct(stats.showdown_count, stats.hands_played)]

(* The returned table, indexed by player: one row per name with hands_played > 0. *)
Table(stats) ==
    [n \in {n \in Names : stats[n].hands_played > 0} |-> Row(stats[n])]

NoTable == [n \in {} |-> 0]

(* memo is a history variable: the arguments and the outcome of the first
   call that returned, kept from the moment a later call starts. *)
NoMemo ==
    [set |-> FALSE, hands |-> <<>>, exclude_heads_up |-> TRUE,
     player_stats |-> ZeroStats, results |-> NoTable]

(***************************************************************************)
(* The hands the analyser is given.                                        *)
(***************************************************************************)
Act(player, action_type) ==
    [player |-> player, action_type |-> action_type,
     amount |-> IF action_type \in {"check", "fold"} THEN 0 ELSE 1]

RECURSIVE Invested(_, _)
Invested(actions, player) ==
    IF actions = <<>> THEN 0
    ELSE (IF Head(actions).player = player THEN Head(actions).amount ELSE 0)
            + Invested(Tail(actions), player)

MkHand(names, shown, pre, flop, turn) ==
    [hand_number |-> 1, dealer |-> None,
     players |-> [i \in DOMAIN names |->
                    [name |-> names[i], initial_stack |-> 100,
                     invested |-> Invested(pre \o flop \o turn, names[i]),
                     hole_cards |-> IF names[i] \in shown THEN <<"Ah", "Kh">> ELSE NoCards]],
     board |-> <<>>, pot |-> 0, winner |-> None,
     preflop_actions |-> pre, flop_actions |-> flop, turn_actions |-> turn,
     river_actions |-> <<>>]

PlayerLists == {<<"P1", "P2", "P3">>, <<"P1", "P2">>}

Acts(types) == {Act(p, t) : p \in Raw, t \in types}

(* Scenario A of the specification: an open, a 3-bet, a fold, a call. *)
ScenarioA == <<Act("P1", "raise"), Act("P2", "raise"), Act("P3", "fold"),
               Act("P1", "call")>>

(* Hands that end before the flop, with every preflop list of raises, calls
   and folds; Scenario A is one of them. *)
PreflopHands ==
    {MkHand(names, {}, pre, <<>>, <<>>) :
        names \in PlayerLists,
        pre \in SeqsUpTo(Acts({"raise", "call", "fold"}), MaxPre)}

(* Hands that reach the flop: the preflop list holds the raises alone, up to
   the 3-bet, which is all the postflop analysis reads of it. *)
FlopHands ==
    {MkHand(names, {}, pre, flop, <<>>) :
        names \in PlayerLists,
        pre \in SeqsUpTo(Acts({"raise"}), ThreeBet),
        flop \in SeqsUpTo(Acts({"check", "bet", "raise", "fold"}), MaxFlop)}

(* The hands of three players with any run of raises before the flop, up to
   a 5-bet, calls of P1 among them, and a bet and a fold on the flop. *)
RaiseHands ==
    {MkHand(<<"P1", "P2", "P3">>, {}, pre,
            <<Act(bettor, "bet"), Act(folder, "fold")>>, <<>>) :
        pre \in SeqsUpTo(Acts({"raise"}) \cup {Act("P1", "call")}, MaxPre),
        bettor \in Raw, folder \in Raw}

(* The hands that reach the turn: no raise, an open of P1 or a 3-bet of P2
   before the flop; on the flop a bet of P1 with one or two players behind
   it, a bet of P2 or checks; and any turn list of checks, bets and folds. *)
MaxTurn == 3

TurnHands ==
    {MkHand(names, {}, pre, flop, turn) :
        names \in PlayerLists,
        pre \in {<<>>, <<Act("P1", "raise")>>,
                 <<Act("P1", "raise"), Act("P2", "raise")>>},
        flop \in {<<>>, <<Act("P1", "bet"), Act("P2", "call")>>,
                  <<Act("P1", "bet"), Act("P2", "call"), Act("P3", "fold")>>,
                  <<Act("P2", "bet"), Act("P1", "call")>>,
                  <<Act("P1", "check"), Act("P2", "check")>>},
        turn \in SeqsUpTo(Acts({"check", "bet", "fold"}), MaxTurn)}

(* The hands that end before the flop with the blinds in the list: actions
   of every type the reconstructor records, by P2 and by P3. *)
MaxBlinds == 3

BlindHands ==
    {MkHand(names, {}, pre, <<>>, <<>>) :
        names \in PlayerLists,
        pre \in SeqsUpTo({[player |-> player, action_type |-> type,
                           amount |-> IF type \in {"check", "fold"} THEN 0 ELSE 1] :
                            player \in {"P2", "P3"},
                            type \in {"small_blind", "big_blind", "call", "bet",
                                      "raise", "check", "fold"}},
                         MaxBlinds)}

(* The hands of the batches: a 3-bet pot of three players - Scenario A
   before the flop, the 3-bettor's cbet and a fold on it, a showdown - and a
   heads-up hand in which P3, who is not a player of it, answers the cbet. *)
(* Hands with play on every street: the preflop list up to a 4-bet or a
   call of the 3-bet, any flop of P1 and P2, and a turn bet or none. *)
MetricHands ==
    {MkHand(names, {}, pre, flop, turn) :
        names \in PlayerLists,
        pre \in {<<>>, <<Act("P1", "raise")>>,
                 <<Act("P1", "raise"), Act("P2", "raise")>>,
                 <<Act("P1", "raise"), Act("P2", "raise"), Act("P1", "call")>>,
                 <<Act("P1", "raise"), Act("P2", "raise"), Act("P1", "raise")>>},
        flop \in SeqsUpTo({Act(p, t) : p \in {"P1", "P2"},
                                       t \in {"check", "bet", "raise", "fold"}},
                          MaxFlop),
        turn \in {<<>>, <<Act("P1", "bet"), Act("P2", "fold")>>,
                  <<Act("P2", "bet"), Act("P1", "fold")>>,
                  <<Act("P2", "bet"), Act("P1", "call")>>,
                  <<Act("P1", "check"), Act("P2", "check")>>}}

BatchHands ==
    {MkHand(<<"P1", "P2", "P3">>, {"P2"},
            <<Act("P1", "raise"), Act("P2", "raise"), Act("P3", "fold"),
              Act("P1", "call")>>,
            <<Act("P2", "bet"), Act("P1", "fold")>>, <<>>),
     MkHand(<<"P1", "P2">>, {},
            <<Act("P1", "raise")>>,
            <<Act("P1", "bet"), Act("P3", "fold")>>, <<>>)}

(* The hands of the lists: tables of three, two, one and no players; two
   heads-up hands that the analysis gets through, one of them of two
   accounts of one person, and the heads-up hand of the batches, which it
   does not get through. *)
ListHands ==
    {MkHand(<<"P1", "P2", "P3">>, {},
            <<Act("P1", "raise"), Act("P2", "call")>>, <<>>, <<>>),
     MkHand(<<"P1", "P2", "P3">>, {"P1"},
            <<Act("P2", "raise")>>,
            <<Act("P1", "check"), Act("P2", "bet"), Act("P1", "raise")>>, <<>>),
     MkHand(<<"P1", "P2">>, {},
            <<Act("P1", "raise"), Act("P2", "raise")>>,
            <<Act("P2", "bet"), Act("P1", "fold")>>, <<>>),
     MkHand(<<"P2", "P3">>, {"P3"},
            <<Act("P2", "raise"), Act("P3", "call")>>, <<>>, <<>>),
     MkHand(<<"P3">>, {}, <<Act("P3", "raise")>>, <<>>, <<>>),
     MkHand(<<>>, {}, <<Act("P1", "raise")>>, <<>>, <<>>),
     MkHand(<<"P1", "P2">>, {},
            <<Act("P1", "raise")>>,
            <<Act("P1", "bet"), Act("P3", "fold")>>, <<>>)}

(***************************************************************************)
(* calculate_advanced_stats.                                               *)
(***************************************************************************)
(* player_stats as an attribute of the analyser that outlives the call, in
   place of the local of the call. *)
Enter_KeepsStats(Lists) ==
    /\ \E hs \in Lists, flag \in BOOLEAN :
        /\ hands' = hs
        /\ exclude_heads_up' = flag
        /\ filtered_hands' = FilterHands(flag, hs)
    /\ idx' = 0
    /\ player_stats' = player_stats
    /\ before' = player_stats
    /\ pc' = "loop"
    /\ UNCHANGED <<player_full_to_unified, results, parserVars>>

(* The call: the locals are fresh, the hands are filtered. *)
Enter(Lists) ==
    /\ \E hs \in Lists, flag \in BOOLEAN :
        /\ hands' = hs
        /\ exclude_heads_up' = flag
        /\ filtered_hands' = FilterHands(flag, hs)
    /\ idx' = 0
    /\ player_stats' = ZeroStats
    /\ before' = ZeroStats
    /\ pc' = "loop"
    /\ UNCHANGED <<player_full_to_unified, results, parserVars>>

(* The first call of a run of the program. *)
Call(Lists) == pc = "idle" /\ Enter(Lists) /\ UNCHANGED memo

(* A later call, after an earlier one returned or raised. *)
CallAgain(Lists) ==
    /\ pc \in {"done", "raised"}
    /\ Enter(Lists)
    /\ memo' = IF pc = "done" /\ ~memo.set
               THEN [set |-> TRUE, hands |-> hands,
                     exclude_heads_up |-> exclude_heads_up,
                     player_stats |-> player_stats, results |-> results]
               ELSE memo

(* One iteration of "for hand in filtered_hands:"; a KeyError leaves the call. *)
Iterate ==
    /\ pc = "loop"
    /\ idx < Len(filtered_hands)
    /\ LET r == AnalyzeHand(player_full_to_unified, filtered_hands[idx + 1], player_stats)
       IN  /\ player_stats' = r.stats
           /\ pc' = IF r.raised THEN "raised" ELSE "loop"
    /\ before' = player_stats
    /\ idx' = idx + 1
    /\ UNCHANGED <<player_full_to_unified, exclude_heads_up, hands, filtered_hands,
                   results, memo, parserVars>>

(* The loop is over: the percentages are computed and the table returned. *)
Return ==
    /\ pc = "loop"
    /\ idx = Len(filtered_hands)
    /\ results' = Table(player_stats)
    /\ pc' = "done"
    /\ UNCHANGED <<player_full_to_unified, exclude_heads_up, hands, filtered_hands,
                   idx, player_stats, before, memo, parserVars>>

(***************************************************************************)
(* The two reconstructors: HandParser.parse_hands (hp) and                 *)
(* DetailedHandAnalyzer.parse_hands_with_actions (da), each a loop over    *)
(* the rows of the log.  info is what extract_hand_info returns for a row; *)
(* the timestamps, hand_id and winning_hand are left out of the records.   *)
(***************************************************************************)
Info(type) ==
    [type |-> type, hand_number |-> 0, dealer |-> None, player |-> None,
     amount |-> 0, stacks |-> <<>>, cards |-> <<>>, raw |-> <<>>]

(* The place of a key in current_hand['players'], 0 for a missing key. *)
IndexOf(players, name) == First({i \in DOMAIN players : players[i].name = name})

(* current_hand['players'][player] = {...}: a dict keeps a key in its place. *)
PutPlayer(players, entry) ==
    LET i == IndexOf(players, entry.name)
    IN  IF i = 0 THEN Append(players, entry) ELSE [players EXCEPT ![i] = entry]

(* for player, stack in info['stacks'].items(): ... *)
RECURSIVE PlayerStacks(_, _)
PlayerStacks(players, stacks) ==
    IF stacks = <<>> THEN players
    ELSE PlayerStacks(PutPlayer(players,
                                [name |-> Head(stacks).name,
                                 initial_stack |-> Head(stacks).stack,
                                 invested |-> 0, hole_cards |-> NoCards]),
                      Tail(stacks))

(* current_hand['players'] as a defaultdict: the amount of a player who is
   not in the hand puts the player in it. *)
Invest_AddsPlayer(players, player, amount) ==
    LET i == IndexOf(players, player)
    IN  IF i = 0
        THEN Append(players, [name |-> player, initial_stack |-> 0,
                              invested |-> amount, hole_cards |-> NoCards])
        ELSE [players EXCEPT ![i].invested = @ + amount]

(* if player in current_hand['players']: ...['invested'] = ... + amount *)
Invest(players, player, amount) ==
    LET i == IndexOf(players, player)
    IN  IF i = 0 THEN players ELSE [players EXCEPT ![i].invested = @ + amount]

(* if player in current_hand['players']: ...['hole_cards'] = info['cards'] *)
ShowCards(players, player, cards) ==
    LET i == IndexOf(players, player)
    IN  IF i = 0 THEN players ELSE [players EXCEPT ![i].hole_cards = cards]

(* HandParser.parse_hands: the hand a hand_start opens. *)
HandParserStart(info) ==
    [hand_number |-> info.hand_number, dealer |-> info.dealer, players |-> <<>>,
     board |-> <<>>, pot |-> 0, winner |-> None,
     small_blind_player |-> None, big_blind_player |-> None]

(* HandParser.parse_hands: the dead-button inference at hand_end. *)
InferDealer(hand) ==
    LET sb_player == hand.small_blind_player
        bb_player == hand.big_blind_player
        others == {i \in DOMAIN hand.players :
                    /\ hand.players[i].name # sb_player
                    /\ hand.players[i].name # bb_player}
        h1 == IF others # {}
              THEN [hand EXCEPT !.dealer = hand.players[First(others)].name]
              ELSE hand
    IN  IF Truthy(hand.dealer) THEN hand
        ELSE IF ~Truthy(h1.dealer) /\ Truthy(sb_player)
             THEN [h1 EXCEPT !.dealer = sb_player]
             ELSE h1

(* HandParser.parse_hands: a row other than hand_start and hand_end, within
   an open hand. *)
HandParserEntry(hand, info) ==
    CASE info.type = "player_stacks" ->
            [hand EXCEPT !.players = PlayerStacks(@, info.stacks)]
      [] info.type = "small_blind" ->
            [hand EXCEPT !.small_blind_player = info.player,
                         !.players = Invest(@, info.player, info.amount)]
      [] info.type = "big_blind" ->
            [hand EXCEPT !.big_blind_player = info.player,
                         !.players = Invest(@, info.player, info.amount)]
      [] info.type \in {"call", "bet", "raise"} ->
            [hand EXCEPT !.players = Invest(@, info.player, info.amount)]
      [] info.type \in {"flop", "turn", "river"} ->
            [hand EXCEPT !.board = info.cards]
      [] info.type = "show" ->
            [hand EXCEPT !.players = ShowCards(@, info.player, info.cards)]
      [] info.type = "pot_collected" ->
            [hand EXCEPT !.winner = info.player, !.pot = info.amount]
      [] info.type = "uncalled_bet" ->
            [hand EXCEPT !.players = Invest(@, info.player, 0 - info.amount)]
      [] OTHER -> hand

(* parse_hands with the open hand appended at the next hand_start: a hand
   without its hand_end is emitted when the following one opens. *)
parse_hands_FlushAtStart(st, info) ==
    IF info.type = "hand_start"
    THEN [st EXCEPT !.hands = IF st.open THEN Append(@, st.current_hand) ELSE @,
                    !.open = TRUE, !.current_hand = HandParserStart(info)]
    ELSE IF info.type = "hand_end"
    THEN IF st.open
         THEN [st EXCEPT !.hands = Append(@, InferDealer(st.current_hand)),
                         !.open = FALSE,
                         !.current_hand = HandParserStart(Info("hand_start"))]
         ELSE st
    ELSE IF st.open
    THEN [st EXCEPT !.current_hand = HandParserEntry(@, info)]
    ELSE st

(* One row of the loop of HandParser.parse_hands. *)
parse_hands(st, info) ==
    IF info.type = "hand_start"
    THEN [st EXCEPT !.open = TRUE, !.current_hand = HandParserStart(info)]
    ELSE IF info.type = "hand_end"
    THEN IF st.open
         THEN [st EXCEPT !.hands = Append(@, InferDealer(st.current_hand)),
                         !.open = FALSE,
                         !.current_hand = HandParserStart(Info("hand_start"))]
         ELSE st
    ELSE IF st.open
    THEN [st EXCEPT !.current_hand = HandParserEntry(@, info)]
    ELSE st

(* parse_hands_with_actions: the hand a hand_start opens. *)
DetailedStart(info) ==
    [hand_number |-> info.hand_number, dealer |-> info.dealer, players |-> <<>>,
     board |-> <<>>, pot |-> 0, winner |-> None,
     preflop_actions |-> <<>>, flop_actions |-> <<>>, turn_actions |-> <<>>,
     river_actions |-> <<>>]

ActionTypes == {"small_blind", "big_blind", "call", "bet", "raise", "check", "fold"}

(* "# Add to appropriate street" *)
AddAction(hand, current_street, action) ==
    CASE current_street = "preflop" -> [hand EXCEPT !.preflop_actions = Append(@, action)]
      [] current_street = "flop" -> [hand EXCEPT !.flop_actions = Append(@, action)]
      [] current_street = "turn" -> [hand EXCEPT !.turn_actions = Append(@, action)]
      [] current_street = "river" -> [hand EXCEPT !.river_actions = Append(@, action)]
      [] OTHER -> hand

(* parse_hands_with_actions: a row other than hand_start and hand_end,
   within an open hand; the ifs of the body one after the other. *)
DetailedEntry(st, info) ==
    LET h1 == IF info.type = "player_stacks"
              THEN [st.current_hand EXCEPT !.players = PlayerStacks(@, info.stacks)]
              ELSE st.current_hand
        street == IF info.type \in {"flop", "turn", "river"}
                  THEN info.type ELSE st.current_street
        h2 == IF info.type \in {"flop", "turn", "river"}
              THEN [h1 EXCEPT !.board = info.cards] ELSE h1
        action == [player |-> info.player, action_type |-> info.type,
                   amount |-> info.amount]
        h3 == IF info.type \in ActionTypes
              THEN LET added == AddAction(h2, street, action)
                   IN  IF Truthy(info.player)
                       THEN [added EXCEPT !.players =
                                Invest(@, info.player, info.amount)]
                       ELSE added
              ELSE h2
        h4 == IF info.type = "show"
              THEN [h3 EXCEPT !.players = ShowCards(@, info.player, info.cards)]
              ELSE h3
        h5 == IF info.type = "pot_collected"
              THEN [h4 EXCEPT !.winner = info.player, !.pot = info.amount]
              ELSE h4
    IN  [st EXCEPT !.current_hand = h5, !.current_street = street]

(* parse_hands_with_actions with "# Track street changes" in front of
   "elif current_hand:": a street row moves current_street with no hand open. *)
parse_hands_with_actions_StreetAnyTime(st, info) ==
    IF info.type = "hand_start"
    THEN [st EXCEPT !.open = TRUE, !.current_hand = DetailedStart(info),
                    !.current_street = "preflop"]
    ELSE IF info.type = "hand_end"
    THEN IF st.open
         THEN [st EXCEPT !.hands = Append(@, st.current_hand),
                         !.open = FALSE,
                         !.current_hand = DetailedStart(Info("hand_start"))]
         ELSE st
    ELSE IF st.open
    THEN DetailedEntry(st, info)
    ELSE IF info.type \in {"flop", "turn", "river"}
    THEN [st EXCEPT !.current_street = info.type]
    ELSE st

(* parse_hands_with_actions with hands.insert(0, current_hand): the newest
   hand first. *)
parse_hands_with_actions_NewestFirst(st, info) ==
    IF info.type = "hand_start"
    THEN [st EXCEPT !.open = TRUE, !.current_hand = DetailedStart(info),
                    !.current_street = "preflop"]
    ELSE IF info.type = "hand_end"
    THEN IF st.open
         THEN [st EXCEPT !.hands = <<st.current_hand>> \o @,
                         !.open = FALSE,
                         !.current_hand = DetailedStart(Info("hand_start"))]
         ELSE st
    ELSE IF st.open
    THEN DetailedEntry(st, info)
    ELSE st

(* parse_hands_with_actions without "current_hand = None" behind
   hands.append(current_hand): the emitted hand is still the open one, and
   the rows that follow go on writing into it. *)
parse_hands_with_actions_KeepsHand(st, info) ==
    IF info.type = "hand_start"
    THEN [st EXCEPT !.open = TRUE, !.current_hand = DetailedStart(info),
                    !.current_street = "preflop"]
    ELSE IF info.type = "hand_end"
    THEN IF st.open
         THEN [st EXCEPT !.hands = Append(@, st.current_hand)]
         ELSE st
    ELSE IF st.open
    THEN LET next == DetailedEntry(st, info)
             last == Len(st.hands)
         IN  IF last > 0 /\ st.hands[last] = st.current_hand
             THEN [next EXCEPT !.hands[last] = next.current_hand]
             ELSE next
    ELSE st

(* parse_hands_with_actions with "if current_hand is None" in front of the
   hand_start branch: the hand that is open stays open. *)
parse_hands_with_actions_KeepsOpen(st, info) ==
    IF info.type = "hand_start"
    THEN IF st.open THEN st
         ELSE [st EXCEPT !.open = TRUE, !.current_hand = DetailedStart(info),
                         !.current_street = "preflop"]
    ELSE IF info.type = "hand_end"
    THEN IF st.open
         THEN [st EXCEPT !.hands = Append(@, st.current_hand),
                         !.open = FALSE,
                         !.current_hand = DetailedStart(Info("hand_start"))]
         ELSE st
    ELSE IF st.open
    THEN DetailedEntry(st, info)
    ELSE st

(* One row of the loop of parse_hands_with_actions. *)
parse_hands_with_actions(st, info) ==
    IF info.type = "hand_start"
    THEN [st EXCEPT !.open = TRUE, !.current_hand = DetailedStart(info),
                    !.current_street = "preflop"]
    ELSE IF info.type = "hand_end"
    THEN IF st.open
         THEN [st EXCEPT !.hands = Append(@, st.current_hand),
                         !.open = FALSE,
                         !.current_hand = DetailedStart(Info("hand_start"))]
         ELSE st
    ELSE IF st.open
    THEN DetailedEntry(st, info)
    ELSE st

(* The rows of a log about the button and the blinds. *)
Stack(name) == [name |-> name, stack |-> 100]

ButtonEntries ==
    {[Info("hand_start") EXCEPT !.hand_number = 1],
     [Info("hand_start") EXCEPT !.hand_number = 1, !.dealer = "P3"],
     Info("hand_end"),
     [Info("player_stacks") EXCEPT !.stacks = <<Stack("P1"), Stack("P2"), Stack("P3")>>],
     [Info("player_stacks") EXCEPT !.stacks = <<Stack("P2"), Stack("P3")>>],
     [Info("small_blind") EXCEPT !.player = "P2", !.amount = 1],
     [Info("small_blind") EXCEPT !.player = "P1", !.amount = 1],
     [Info("big_blind") EXCEPT !.player = "P3", !.amount = 2]}

(* The rows of a log with an entry of every type extract_hand_info knows,
   and one it does not know: two hand numbers, one table of two players, and
   P1 or P2 in every entry that names a player. *)
AnyEntries ==
    {[Info("hand_start") EXCEPT !.hand_number = 1, !.dealer = "P1"],
     [Info("hand_start") EXCEPT !.hand_number = 2],
     [Info("hand_end") EXCEPT !.hand_number = 1],
     [Info("hand_end") EXCEPT !.hand_number = 2],
     [Info("player_stacks") EXCEPT !.stacks = <<Stack("P1"), Stack("P2")>>],
     [Info("player_join") EXCEPT !.player = "P2", !.amount = 100],
     [Info("small_blind") EXCEPT !.player = "P1", !.amount = 1],
     [Info("big_blind") EXCEPT !.player = "P2", !.amount = 2],
     [Info("call") EXCEPT !.player = "P1", !.amount = 2],
     [Info("bet") EXCEPT !.player = "P1", !.amount = 4],
     [Info("raise") EXCEPT !.player = "P2", !.amount = 8],
     [Info("check") EXCEPT !.player = "P2"],
     [Info("fold") EXCEPT !.player = "P1"],
     [Info("flop") EXCEPT !.cards = <<"7d", "Ks", "6d">>],
     [Info("turn") EXCEPT !.cards = <<"7d", "Ks", "6d", "2c">>],
     [Info("river") EXCEPT !.cards = <<"7d", "Ks", "6d", "2c", "Ah">>],
     [Info("show") EXCEPT !.player = "P2", !.cards = <<"Ah", "Kh">>],
     [Info("pot_collected") EXCEPT !.player = "P2", !.amount = 8],
     [Info("uncalled_bet") EXCEPT !.player = "P1", !.amount = 4],
     Info("unknown")}

(* The rows of a log whose table seats P1 and P2, with every action both by
   the seated P1 and by P3, who is not in player_stacks. *)
SeatEntries ==
    {[Info("hand_start") EXCEPT !.hand_number = 1, !.dealer = "P1"],
     [Info("hand_end") EXCEPT !.hand_number = 1],
     [Info("player_stacks") EXCEPT !.stacks = <<Stack("P1"), Stack("P2")>>],
     [Info("flop") EXCEPT !.cards = <<"7d", "Ks", "6d">>]}
    \cup {[Info(type) EXCEPT !.player = player,
                             !.amount = CASE type = "small_blind" -> 1
                                          [] type \in {"big_blind", "call"} -> 2
                                          [] type = "bet" -> 4
                                          [] type = "raise" -> 8
                                          [] OTHER -> 0] :
            type \in ActionTypes, player \in {"P1", "P3"}}

(* The rows of a log of one table of three: a hand opens, P2 raises and
   shows, the hand closes, in any order and any number of times. *)
SealEntries ==
    {[Info("hand_start") EXCEPT !.hand_number = 1, !.dealer = "P1"],
     [Info("hand_end") EXCEPT !.hand_number = 1],
     [Info("player_stacks") EXCEPT
        !.stacks = <<Stack("P1"), Stack("P2"), Stack("P3")>>],
     [Info("raise") EXCEPT !.player = "P2", !.amount = 8],
     [Info("show") EXCEPT !.player = "P2", !.cards = <<"Ah", "Kh">>]}

(* The show entries of the log, hand by hand, as the loop meets them: a
   hand_start opens an empty set, a show entry read with a hand open puts
   its player in, and the hand_end that emits the hand files the set. *)
ShowsRead(sh, open, info) ==
    IF info.type = "hand_start" THEN [sh EXCEPT !.open = {}]
    ELSE IF ~open THEN sh
    ELSE IF info.type = "hand_end"
    THEN [hands |-> Append(sh.hands, sh.open), open |-> {}]
    ELSE IF info.type = "show" THEN [sh EXCEPT !.open = @ \cup {info.player}]
    ELSE sh

(* Both reconstructors read the next row of the log; its type is type. *)
Feed(Entries, type) ==
    /\ entries < MaxEntries
    /\ \E info \in Entries :
        /\ info.type = type
        /\ row' = info
        /\ hp' = parse_hands(hp, info)
        /\ da' = parse_hands_with_actions(da, info)
        /\ shows' = ShowsRead(shows, da.open, info)
    /\ entries' = entries + 1
    /\ UNCHANGED analyzerVars

(* The same step within a log of entries of every type. *)
Read(Entries, type) ==
    /\ entries < MaxRows
    /\ \E info \in Entries :
        /\ info.type = type
        /\ row' = info
        /\ hp' = parse_hands(hp, info)
        /\ da' = parse_hands_with_actions(da, info)
        /\ shows' = ShowsRead(shows, da.open, info)
    /\ entries' = entries + 1
    /\ UNCHANGED analyzerVars

(* Before the first row: hands = [] and current_hand = None. *)
NoHand == [hands |-> <<>>, open |-> FALSE, current_hand |-> HandParserStart(Info("hand_start"))]

NoDetailedHand ==
    [hands |-> <<>>, open |-> FALSE, current_hand |-> DetailedStart(Info("hand_start")),
     current_street |-> "preflop"]

Init ==
    /\ pc = "idle"
    /\ player_full_to_unified \in Mappings
    /\ exclude_heads_up = TRUE
    /\ hands = <<>>
    /\ filtered_hands = <<>>
    /\ idx = 0
    /\ player_stats = ZeroStats
    /\ before = ZeroStats
    /\ results = NoTable
    /\ memo = NoMemo
    /\ entries = 0
    /\ row = Info("unknown")
    /\ hp = NoHand
    /\ da = NoDetailedHand
    /\ shows = [hands |-> <<>>, open |-> {}]

(* The analyser on one hand that ends before the flop. *)
NextPreflop ==
    \/ Call({<<hand>> : hand \in PreflopHands})
    \/ Iterate
    \/ Return

SpecPreflop == Init /\ [][NextPreflop]_vars

(* The analyser on one hand that reaches the flop. *)
NextFlop ==
    \/ Call({<<hand>> : hand \in FlopHands})
    \/ Iterate
    \/ Return

SpecFlop == Init /\ [][NextFlop]_vars

(* The analyser on one hand that reaches the flop behind a run of raises. *)
NextRaises ==
    \/ Call({<<hand>> : hand \in RaiseHands})
    \/ Iterate
    \/ Return

SpecRaises == Init /\ [][NextRaises]_vars

(* The analyser on one hand whose preflop list has the blinds in it. *)
NextBlinds ==
    \/ Call({<<hand>> : hand \in BlindHands})
    \/ Iterate
    \/ Return

SpecBlinds == Init /\ [][NextBlinds]_vars

(* The analyser on one hand with play on every street. *)
NextMetrics ==
    \/ Call({<<hand>> : hand \in MetricHands})
    \/ Iterate
    \/ Return

SpecMetrics == Init /\ [][NextMetrics]_vars

(* The analyser on one hand that reaches the turn. *)
NextTurn ==
    \/ Call({<<hand>> : hand \in TurnHands})
    \/ Iterate
    \/ Return

SpecTurn == Init /\ [][NextTurn]_vars

(* Calls of the analyser one after the other, each over a list of hands. *)
NextBatch ==
    \/ Call(SeqsUpTo(BatchHands, MaxHands))
    \/ CallAgain(SeqsUpTo(BatchHands, MaxHands))
    \/ Iterate
    \/ Return

SpecBatch == Init /\ [][NextBatch]_vars

(* One call of the analyser over a list of hands of every table size. *)
NextLists ==
    \/ Call(SeqsUpTo(ListHands, MaxHands))
    \/ Iterate
    \/ Return

SpecLists == Init /\ [][NextLists]_vars

(* The reconstructors on a log about the button and the blinds. *)
NextParse ==
    \/ Feed(ButtonEntries, "hand_start")
    \/ Feed(ButtonEntries, "player_stacks")
    \/ Feed(ButtonEntries, "small_blind")
    \/ Feed(ButtonEntries, "big_blind")
    \/ Feed(ButtonEntries, "hand_end")

SpecParse == Init /\ [][NextParse]_vars

(* The reconstructors on a log with entries of every type. *)
NextLog ==
    \/ Read(AnyEntries, "hand_start")
    \/ Read(AnyEntries, "hand_end")
    \/ Read(AnyEntries, "player_stacks")
    \/ Read(AnyEntries, "player_join")
    \/ Read(AnyEntries, "small_blind")
    \/ Read(AnyEntries, "big_blind")
    \/ Read(AnyEntries, "call")
    \/ Read(AnyEntries, "bet")
    \/ Read(AnyEntries, "raise")
    \/ Read(AnyEntries, "check")
    \/ Read(AnyEntries, "fold")
    \/ Read(AnyEntries, "flop")
    \/ Read(AnyEntries, "turn")
    \/ Read(AnyEntries, "river")
    \/ Read(AnyEntries, "show")
    \/ Read(AnyEntries, "pot_collected")
    \/ Read(AnyEntries, "uncalled_bet")
    \/ Read(AnyEntries, "unknown")

SpecLog == Init /\ [][NextLog]_vars

(* The reconstructors on a log with actions of a player who was not dealt in. *)
NextSeats ==
    \/ Read(SeatEntries, "hand_start")
    \/ Read(SeatEntries, "hand_end")
    \/ Read(SeatEntries, "player_stacks")
    \/ Read(SeatEntries, "flop")
    \/ Read(SeatEntries, "small_blind")
    \/ Read(SeatEntries, "big_blind")
    \/ Read(SeatEntries, "call")
    \/ Read(SeatEntries, "bet")
    \/ Read(SeatEntries, "raise")
    \/ Read(SeatEntries, "check")
    \/ Read(SeatEntries, "fold")

SpecSeats == Init /\ [][NextSeats]_vars

(* The pipeline: parse_hands_with_actions reads the log, and the list it
   returns is the list calculate_advanced_stats is called with. *)
NextPipeline ==
    \/ pc = "idle" /\ Feed(SealEntries, "hand_start")
    \/ pc = "idle" /\ Feed(SealEntries, "hand_end")
    \/ pc = "idle" /\ Feed(SealEntries, "player_stacks")
    \/ pc = "idle" /\ Feed(SealEntries, "raise")
    \/ pc = "idle" /\ Feed(SealEntries, "show")
    \/ Call({da.hands})
    \/ Iterate
    \/ Return

SpecPipeline == Init /\ [][NextPipeline]_vars

(***************************************************************************)
(* What the properties speak about: the hand the last loop iteration       *)
(* analysed, and what it added to the counters of each name.               *)
(***************************************************************************)
Analysed == pc \in {"loop", "done"} /\ idx >= 1

LastHand == filtered_hands[idx]

Delta(n, f) == player_stats[n][f] - before[n][f]

RECURSIVE TotalDelta(_, _)
TotalDelta(S, f) ==
    IF S = {} THEN 0
    ELSE LET n == CHOOSE n \in S : TRUE IN Delta(n, f) + TotalDelta(S \ {n}, f)

Canonical(p) == get_unified_name(player_full_to_unified, p)

(* How many players of the hand in S go by the name n. *)
CountOf(n, S) == Cardinality({p \in S \cap PlayerNames(LastHand) : Canonical(p) = n})

RaisesBefore(actions, i) ==
    Cardinality({j \in 1..(i - 1) : actions[j].action_type = "raise"})

(* The player of raise number k of a list, as a set with at most one member. *)
RaiserNo(actions, k) ==
    {actions[i].player :
        i \in {i \in DOMAIN actions : /\ actions[i].action_type = "raise"
                                     /\ RaisesBefore(actions, i) = k - 1}}

(* The players who call while exactly k raises have been made. *)
CallersAt(actions, k) ==
    {actions[i].player :
        i \in {i \in DOMAIN actions : /\ actions[i].action_type = "call"
                                     /\ RaisesBefore(actions, i) = k}}

(* C1: per analysed hand the pfr_count of all names together grows by at
   most 1; when it grows, the name credited is the canonical name of the
   player of the first preflop raise; without a preflop raise no pfr_count
   changes. *)
C1_PfrFirstRaiserOnly ==
    Analysed =>
        LET pre == LastHand.preflop_actions IN
        /\ \A n \in Names : Delta(n, "pfr_count") >= 0
        /\ TotalDelta(Names, "pfr_count") <= 1
        /\ TotalDelta(Names, "pfr_count") = 1 =>
                \E p \in RaiserNo(pre, 1) : Delta(Canonical(p), "pfr_count") = 1
        /\ RaiserNo(pre, 1) = {} => TotalDelta(Names, "pfr_count") = 0

(* Two players raise and the first of them got the credit. *)
C1_Witness ==
    /\ Analysed
    /\ RaiserNo(LastHand.preflop_actions, 1) = {"P1"}
    /\ RaiserNo(LastHand.preflop_actions, 2) = {"P2"}
    /\ Delta("P1", "pfr_count") = 1

(* C2: pfr_count <= vpip_count <= hands_played for every name, whatever the
   hands and the filter setting, so PFR% <= VPIP% and both lie in [0, 100]
   (the table holds tenths of a percent). *)
C2_PfrVpipHands ==
    /\ pc \in {"loop", "done"} =>
        \A n \in Names :
            /\ 0 <= player_stats[n].pfr_count
            /\ player_stats[n].pfr_count <= player_stats[n].vpip_count
            /\ player_stats[n].vpip_count <= player_stats[n].hands_played
    /\ pc = "done" =>
        \A n \in DOMAIN results :
            /\ 0 <= results[n].pfr
            /\ results[n].pfr <= results[n].vpip
            /\ results[n].vpip <= 1000

(* A returned row with 0 < PFR% < VPIP% = 100. *)
C2_Witness ==
    /\ pc = "done"
    /\ \E n \in DOMAIN results :
        /\ 0 < results[n].pfr
        /\ results[n].pfr < results[n].vpip
        /\ results[n].vpip = 1000

(* C7: per analysed hand threebets grows only for the player of the second
   preflop raise and fourbets only for the player of the third; in Scenario A
   over {P1, P2, P3} the PFR is P1's, the 3-bet is P2's and nobody 4-bets. *)
C7_RaiseDepth ==
    Analysed =>
        LET pre == LastHand.preflop_actions IN
        /\ \A n \in Names :
            /\ Delta(n, "threebets") = CountOf(n, RaiserNo(pre, 2))
            /\ Delta(n, "fourbets") = CountOf(n, RaiserNo(pre, 3))
        /\ (pre = ScenarioA /\ PlayerNames(LastHand) = Raw) =>
            /\ Delta(Canonical("P1"), "pfr_count") = 1
            /\ Delta(Canonical("P2"), "threebets") = 1
            /\ TotalDelta(Names, "threebets") = 1
            /\ TotalDelta(Names, "fourbets") = 0

(* Scenario A was analysed and P2 holds the 3-bet. *)
C7_Witness ==
    /\ Analysed
    /\ LastHand.preflop_actions = ScenarioA
    /\ PlayerNames(LastHand) = Raw
    /\ player_stats[Canonical("P2")].threebets = 1

(* The players who act - fold, call or raise - while exactly one raise has
   been made, other than the first raiser. *)
FacingFirstRaise(actions) ==
    {actions[i].player :
        i \in {i \in DOMAIN actions :
                /\ RaisesBefore(actions, i) = 1
                /\ actions[i].action_type \in {"fold", "call", "raise"}}}
        \ RaiserNo(actions, 1)

(* C8: per analysed hand every player, other than the first raiser, who
   folds, calls or raises after the first raise and before any second raise
   gets faced_raise_count + 1, once; in Scenario A these are P2 and P3. *)
C8_FacedRaise ==
    Analysed =>
        LET pre == LastHand.preflop_actions IN
        /\ \A n \in Names :
            /\ Delta(n, "faced_raise_count") >= CountOf(n, FacingFirstRaise(pre))
            /\ Delta(n, "faced_raise_count") <= CountOf(n, PlayerNames(LastHand))
        /\ (pre = ScenarioA /\ PlayerNames(LastHand) = Raw) =>
            /\ Delta(Canonical("P2"), "faced_raise_count") >= 1
            /\ Delta(Canonical("P3"), "faced_raise_count") >= 1

(* The players who face the second raise: the first raiser, the players of
   the third and later raises, and the players who call the second raise. *)
FacingThreeBet(actions) ==
    (IF RaiserNo(actions, 2) # {} THEN RaiserNo(actions, 1) ELSE {})
        \cup UNION {RaiserNo(actions, k) : k \in 3..Len(actions)}
        \cup CallersAt(actions, 2)

(* C9: per analysed hand with a second preflop raise the first raiser gets
   faced_3bet_count + 1, once, whatever they do later; called_3bet is
   credited exactly to the players who call while two raises have been made;
   whoever is credited fourbets or called_3bet is credited faced_3bet_count;
   in Scenario A both grow by 1 for P1 and for nobody else. *)
C9_FacedThreeBet ==
    Analysed =>
        LET pre == LastHand.preflop_actions IN
        /\ \A n \in Names :
            /\ Delta(n, "faced_3bet_count") = CountOf(n, FacingThreeBet(pre))
            /\ Delta(n, "called_3bet") = CountOf(n, CallersAt(pre, 2))
            /\ Delta(n, "fourbets") + Delta(n, "called_3bet") > 0
                    => Delta(n, "faced_3bet_count") > 0
            /\ Delta(n, "fourbets") <= Delta(n, "faced_3bet_count")
            /\ Delta(n, "called_3bet") <= Delta(n, "faced_3bet_count")
        /\ \A p \in RaiserNo(pre, 1) \cap PlayerNames(LastHand) :
                RaiserNo(pre, 2) # {} => Delta(Canonical(p), "faced_3bet_count") >= 1
        /\ (pre = ScenarioA /\ PlayerNames(LastHand) = Raw) =>
            /\ Delta(Canonical("P1"), "faced_3bet_count") = 1
            /\ Delta(Canonical("P1"), "called_3bet") = 1
            /\ TotalDelta(Names, "faced_3bet_count") = 1
            /\ TotalDelta(Names, "called_3bet") = 1

(* Scenario A was analysed: P1 faced the 3-bet and called it. *)
C9_Witness ==
    /\ Analysed
    /\ LastHand.preflop_actions = ScenarioA
    /\ PlayerNames(LastHand) = Raw
    /\ player_stats[Canonical("P1")].faced_3bet_count = 1
    /\ player_stats[Canonical("P1")].called_3bet = 1

(* The sum of a counter over all names. *)
RECURSIVE Total(_, _)
Total(S, f) ==
    IF S = {} THEN 0
    ELSE LET n == CHOOSE n \in S : TRUE IN player_stats[n][f] + Total(S \ {n}, f)

(* C3: folded_to_cbet <= faced_cbet_count for every name, whatever hands
   were processed: a fold to a cbet is credited only on top of a faced cbet. *)
C3_FoldedWithinFaced ==
    \A n \in Names :
        /\ 0 <= player_stats[n].folded_to_cbet
        /\ player_stats[n].folded_to_cbet <= player_stats[n].faced_cbet_count

(* A call returned with a name that faced one cbet and folded to it. *)
C3_Witness ==
    /\ pc = "done"
    /\ \E n \in Names :
        /\ player_stats[n].folded_to_cbet = 1
        /\ player_stats[n].faced_cbet_count = 1

(* C4 as stated: faced_cbet_count <= cbet_opportunities for every name. *)
C4_FacedWithinOpportunities ==
    \A n \in Names :
        player_stats[n].faced_cbet_count <= player_stats[n].cbet_opportunities

(* C4, amended: over all names together faced_cbet_count is at most
   cbets_made + cbet_after_3bet_made - a faced cbet is credited to the
   responder, and only in a hand in which the aggressor was credited a cbet. *)
C4_FacedWithinCbetsMade ==
    Total(Names, "faced_cbet_count")
        <= Total(Names, "cbets_made") + Total(Names, "cbet_after_3bet_made")

(* A call returned with a name that faced a cbet and never had a cbet
   opportunity, the cbet being counted for another name. *)
C4_Witness ==
    /\ pc = "done"
    /\ \E n \in Names :
        /\ player_stats[n].faced_cbet_count = 1
        /\ player_stats[n].cbet_opportunities = 0
        /\ player_stats[n].threebetpot_opportunities = 0
    /\ Total(Names, "cbets_made") + Total(Names, "cbet_after_3bet_made") = 1

(* The aggressor of a hand as the properties name it: the player of the
   second preflop raise, else of the first; a set with at most one member. *)
AggressorOf(hand) ==
    IF RaiserNo(hand.preflop_actions, 2) # {}
    THEN RaiserNo(hand.preflop_actions, 2)
    ELSE RaiserNo(hand.preflop_actions, 1)

(* The index of the first bet or raise of a list, as a set. *)
FirstBetAt(actions) ==
    {i \in DOMAIN actions :
        /\ actions[i].action_type \in {"bet", "raise"}
        /\ \A j \in 1..(i - 1) : actions[j].action_type \notin {"bet", "raise"}}

(* The index of the first action behind index b of a player other than a. *)
ResponseAt(actions, b, a) ==
    {j \in DOMAIN actions :
        /\ j > b
        /\ actions[j].player # a
        /\ \A k \in (b + 1)..(j - 1) : actions[k].player = a}

One(cond) == IF cond THEN 1 ELSE 0

ScenarioB == <<Act("P1", "bet"), Act("P2", "fold")>>

(* C10: in an analysed hand whose aggressor, a player of the hand, makes the
   first bet or raise of the flop list, the aggressor gets one opportunity
   and one made cbet - the plain counters without a second preflop raise,
   the 3-bet-pot counters and not the plain ones with one - and the player
   of the first later flop action of somebody else gets faced_cbet_count + 1,
   and folded_to_cbet + 1 iff that action is a fold.  Without a 3-bet, P1
   the aggressor and the flop [P1 bets, P2 folds]: P1 cbet_opportunities + 1
   and cbets_made + 1, P2 faced_cbet_count + 1 and folded_to_cbet + 1. *)
C10_ContinuationBet ==
    Analysed =>
        LET flop == LastHand.flop_actions
            is3bet == RaiserNo(LastHand.preflop_actions, 2) # {}
        IN
        /\ \A a \in AggressorOf(LastHand) \cap PlayerNames(LastHand) :
           \A b \in FirstBetAt(flop) :
             flop[b].player = a =>
                /\ \A n \in Names :
                    LET own == n = Canonical(a) IN
                    /\ Delta(n, "cbet_opportunities") = One(own /\ ~is3bet)
                    /\ Delta(n, "cbets_made") = One(own /\ ~is3bet)
                    /\ Delta(n, "threebetpot_opportunities") = One(own /\ is3bet)
                    /\ Delta(n, "cbet_after_3bet_made") = One(own /\ is3bet)
                /\ \A r \in ResponseAt(flop, b, a) :
                   \A n \in Names :
                    LET resp == n = Canonical(flop[r].player) IN
                    /\ Delta(n, "faced_cbet_count") = One(resp)
                    /\ Delta(n, "folded_to_cbet")
                            = One(resp /\ flop[r].action_type = "fold")
                /\ ResponseAt(flop, b, a) = {} =>
                    /\ TotalDelta(Names, "faced_cbet_count") = 0
                    /\ TotalDelta(Names, "folded_to_cbet") = 0
        /\ ( /\ LastHand.preflop_actions = <<Act("P1", "raise")>>
             /\ flop = ScenarioB
             /\ {"P1", "P2"} \subseteq PlayerNames(LastHand) ) =>
                /\ Delta(Canonical("P1"), "cbet_opportunities") = 1
                /\ Delta(Canonical("P1"), "cbets_made") = 1
                /\ Delta(Canonical("P2"), "faced_cbet_count") = 1
                /\ Delta(Canonical("P2"), "folded_to_cbet") = 1

(* A 3-bet pot was analysed in which the 3-bettor bet the flop first and the
   first raiser answered with a raise, not a fold. *)
C10_Witness ==
    /\ Analysed
    /\ LastHand.preflop_actions = <<Act("P2", "raise"), Act("P1", "raise")>>
    /\ LastHand.flop_actions = <<Act("P1", "bet"), Act("P2", "raise")>>
    /\ Delta(Canonical("P1"), "cbet_after_3bet_made") = 1
    /\ Delta(Canonical("P2"), "faced_cbet_count") = 1
    /\ Delta(Canonical("P2"), "folded_to_cbet") = 0

(* C5: a call of calculate_advanced_stats over the same list of hands, with
   the same identity mapping and the same exclude_heads_up as an earlier
   call, returns the same counters and the same table for every player,
   whatever the calls before it analysed. *)
C5_SameArgumentsSameCounters ==
    ( /\ pc = "done"
      /\ memo.set
      /\ hands = memo.hands
      /\ exclude_heads_up = memo.exclude_heads_up ) =>
        /\ player_stats = memo.player_stats
        /\ results = memo.results

(* A later call over two hands, one of them kept by the filter, returned
   with the arguments of the first call that returned. *)
C5_Witness ==
    /\ pc = "done"
    /\ memo.set
    /\ hands = memo.hands
    /\ exclude_heads_up = memo.exclude_heads_up
    /\ Len(hands) = 2
    /\ Len(filtered_hands) = 1
    /\ DOMAIN results # {}

(* The dealer of a closed hand as the dead-button rule gives it: the dealer
   the hand_start recorded; without one the first player, in the order of
   the hand's players, who posted neither blind; without such a player the
   poster of the small blind. *)
DeadButtonDealer(recorded, players, sb_player, bb_player) ==
    LET others == {i \in DOMAIN players : players[i].name \notin {sb_player, bb_player}}
    IN  IF recorded # None THEN recorded
        ELSE IF others # {} THEN players[First(others)].name
        ELSE sb_player

(* C6: every hand a reconstructor closed carries the dealer of the
   dead-button rule - the dealer recorded at the hand_start, else the first
   player who posted neither blind, else the small-blind poster; players
   [P1, P2, P3] with SB = P2, BB = P3 and no dealer give dealer = P1.  The
   hand_start's dealer is the one parse_hands_with_actions keeps untouched;
   the blind posters are the ones parse_hands records. *)
C6_DeadButtonInference ==
    \A i \in DOMAIN hp.hands :
        LET want == DeadButtonDealer(da.hands[i].dealer, hp.hands[i].players,
                                     hp.hands[i].small_blind_player,
                                     hp.hands[i].big_blind_player)
        IN  /\ hp.hands[i].dealer = want
            /\ da.hands[i].dealer = want

(* The flop checks of the players of the hand who go by the name n that have
   a later action of the same player, and the index of that next action. *)
LaterOwn(actions, i) ==
    {j \in DOMAIN actions : j > i /\ actions[j].player = actions[i].player}

FollowedChecks(n, actions) ==
    {i \in DOMAIN actions :
        /\ actions[i].action_type = "check"
        /\ actions[i].player \in PlayerNames(LastHand)
        /\ Canonical(actions[i].player) = n
        /\ LaterOwn(actions, i) # {}}

ScenarioC == <<Act("P1", "check"), Act("P2", "bet"), Act("P1", "raise")>>

(* C11: in an analysed hand every flop check of a player of the hand who
   acts again later in the flop list adds 1 to the check_raise_opportunities
   of that player's name, and 1 to its check_raises_made iff the player's
   next action is a raise; a check the player does not follow up adds
   nothing.  The flop [P1 checks, P2 bets, P1 raises] gives P1
   check_raise_opportunities + 1 and check_raises_made + 1. *)
C11_CheckRaise ==
    Analysed =>
        LET flop == LastHand.flop_actions IN
        /\ \A n \in Names :
            /\ Delta(n, "check_raise_opportunities")
                    = Cardinality(FollowedChecks(n, flop))
            /\ Delta(n, "check_raises_made")
                    = Cardinality({i \in FollowedChecks(n, flop) :
                        \E j \in LaterOwn(flop, i) :
                            /\ \A k \in LaterOwn(flop, i) : j <= k
                            /\ flop[j].action_type = "raise"})
        /\ (flop = ScenarioC /\ "P1" \in PlayerNames(LastHand)) =>
                /\ Delta(Canonical("P1"), "check_raise_opportunities") = 1
                /\ Delta(Canonical("P1"), "check_raises_made") = 1

(* Scenario C was analysed: P1 checked, P2 bet, P1 raised, and P1 has the
   opportunity and the check-raise. *)
C11_Witness ==
    /\ Analysed
    /\ LastHand.flop_actions = ScenarioC
    /\ Delta(Canonical("P1"), "check_raise_opportunities") = 1
    /\ Delta(Canonical("P1"), "check_raises_made") = 1

(* The counters after the hands of a list were analysed one after the other,
   each in full, from the counters acc; without is the set of places of the
   list that are passed over. *)
RECURSIVE Accumulate(_, _, _, _)
Accumulate(hs, i, without, acc) ==
    IF i > Len(hs) THEN acc
    ELSE Accumulate(hs, i + 1, without,
                    IF i \in without THEN acc
                    ELSE AnalyzeHand(player_full_to_unified, hs[i], acc).stats)

(* The places of the two-player hands of the list of the call. *)
HeadsUpAt == {i \in DOMAIN hands : Len(hands[i].players) = 2}

(* C12: when a call returns with exclude_heads_up enabled, the counters are
   those of the list without its two-player hands - such a hand changes no
   counter of any name, hands_played included, and the hands of every other
   table size count in full; with the flag disabled the counters are those
   of the whole list, two-player hands included.  The filter comes before
   the accumulation: the loop starts from zero counters and no iteration
   ever analyses a two-player hand while the flag is enabled. *)
C12_HeadsUpFilter ==
    /\ pc = "done" =>
            player_stats = Accumulate(hands, 1,
                                      IF exclude_heads_up THEN HeadsUpAt ELSE {},
                                      ZeroStats)
    /\ (pc = "loop" /\ idx = 0) => player_stats = ZeroStats
    /\ (pc \in {"loop", "done", "raised"} /\ idx >= 1 /\ exclude_heads_up) =>
            Len(filtered_hands[idx].players) # 2

(* A call with the flag enabled returned over a list of a three-player hand
   and a heads-up hand, in which P1 played one hand, not two. *)
C12_Witness ==
    /\ pc = "done"
    /\ exclude_heads_up
    /\ Len(hands) = 2
    /\ Len(hands[1].players) = 2
    /\ hands[1].flop_actions # <<>>
    /\ Len(hands[2].players) = 3
    /\ player_stats["P1"].hands_played = 1
    /\ player_stats["P1"].pfr_count = 1

(* The counters a call over the list hs comes to, with the flag of the call
   of the state. *)
Run(hs) ==
    Accumulate(hs, 1,
               {i \in DOMAIN hs : exclude_heads_up /\ Len(hs[i].players) = 2},
               ZeroStats)

(* The field-wise sum of two counter maps. *)
Plus(s, t) == [n \in Names |-> [f \in Fields |-> s[n][f] + t[n][f]]]

(* C13: the counters of a call that returned over a list of hands are the
   field-wise sum of the counters of the two parts of the list, wherever it
   is cut in two (A ++ B against A and B apart), and they are the counters
   of every permutation of the list. *)
C13_AdditiveAnyOrder ==
    pc = "done" =>
        /\ \A k \in 0..Len(hands) :
                player_stats = Plus(Run(SubSeq(hands, 1, k)),
                                    Run(SubSeq(hands, k + 1, Len(hands))))
        /\ \A perm \in Permutations(DOMAIN hands) :
                player_stats = Run([i \in DOMAIN hands |-> hands[perm[i]]])

(* A call returned over three hands, twice the hand in which P1 showed cards
   and then another one, with both showdowns and all three hands counted
   for P1. *)
C13_Witness ==
    /\ pc = "done"
    /\ Len(filtered_hands) = 3
    /\ filtered_hands[1] # filtered_hands[3]
    /\ filtered_hands[1] = filtered_hands[2]
    /\ player_stats["P1"].showdown_count = 2
    /\ player_stats["P1"].hands_played = 3

(* The opportunity counter under each metric of the table that has one. *)
Denominator ==
    [threebets |-> "faced_raise_count", fourbets |-> "faced_3bet_count",
     call_vs_3bet |-> "faced_3bet_count", cbet |-> "cbet_opportunities",
     fold_to_cbet |-> "faced_cbet_count", turn_cbet |-> "turn_cbet_opportunities",
     fold_to_turn_cbet |-> "faced_turn_cbet_count",
     cbet_after_3bet |-> "threebetpot_opportunities",
     check_after_3bet |-> "threebetpot_opportunities",
     donk_bet |-> "donk_bet_opportunities",
     bet_when_checked_to |-> "pfr_checked_to_opportunities",
     check_raise |-> "check_raise_opportunities"]

(* C14: in the table a call returned, every metric over an opportunity
   counter is 0 for a player whose counter is 0, and the zero counters cost
   no player a row: the table has a row for every name with hands_played > 0,
   and once the loop is over the call can always return. *)
C14_ZeroDenominator ==
    /\ pc = "done" =>
        /\ DOMAIN results = {n \in Names : player_stats[n].hands_played > 0}
        /\ \A n \in DOMAIN results : \A m \in DOMAIN Denominator :
                player_stats[n][Denominator[m]] = 0 => results[n][m] = 0
    /\ (pc = "loop" /\ idx = Len(filtered_hands)) => ENABLED Return

(* A call returned a row for P1 who had no cbet opportunity and no raise to
   face, and whose check-raise metric is 100%. *)
C14_Witness ==
    /\ pc = "done"
    /\ "P1" \in DOMAIN results
    /\ player_stats["P1"].cbet_opportunities = 0
    /\ player_stats["P1"].faced_3bet_count = 0
    /\ results["P1"].cbet = 0
    /\ results["P1"].fourbets = 0
    /\ results["P1"].check_raise = 1000

(***************************************************************************)
(* The reconstructors, row by row: a step that reads a row is a step that  *)
(* counts it in entries and leaves it in row.                              *)
(***************************************************************************)
ReadsRow == entries' = entries + 1

(* C15: a row other than a hand_start that a reconstructor reads with no
   hand open - a hand_end or any other entry - leaves the reconstructor as
   it was: no hand is opened, none is emitted, and the list of emitted hands
   is the same. *)
C15_IdleIgnores ==
    [][ (ReadsRow /\ row'.type # "hand_start") =>
            /\ ~hp.open => hp' = hp
            /\ ~da.open => da' = da ]_vars

(* A hand_end was read and no hand has been emitted: it came with no hand
   open, and none is open after it. *)
C15_Witness ==
    /\ row.type = "hand_end"
    /\ entries = 3
    /\ ~hp.open /\ ~da.open
    /\ hp.hands = <<>> /\ da.hands = <<>>

(* C16: a step that emits a hand reads a hand_end whose hand_number is the
   hand_number of the emitted hand, the one its hand_start gave it. *)
C16_MatchingHandEnd ==
    [][ ReadsRow =>
            /\ Len(hp.hands') > Len(hp.hands) =>
                    /\ row'.type = "hand_end"
                    /\ row'.hand_number = hp.hands'[Len(hp.hands')].hand_number
            /\ Len(da.hands') > Len(da.hands) =>
                    /\ row'.type = "hand_end"
                    /\ row'.hand_number = da.hands'[Len(da.hands')].hand_number ]_vars

(* C17: the list a reconstructor returns when the log ends - the log can end
   behind any row - holds closed hands alone: a row changes the list only
   by closing the open hand, a hand_end read with a hand open, one hand at a
   time; a row that leaves a hand open, the hand_start of the next hand
   included, adds nothing, so a hand that is open when the log ends is not
   in the list.  No row stops the loop: while the log has rows the next one
   can be read, whatever its type. *)
C17_OpenHandDropped ==
    /\ [](entries < MaxRows => ENABLED NextLog)
    /\ [][ ReadsRow =>
            /\ hp'.open => hp.hands' = hp.hands
            /\ da'.open => da.hands' = da.hands
            /\ hp.hands' # hp.hands =>
                    /\ row'.type = "hand_end" /\ hp.open
                    /\ Len(hp.hands') = Len(hp.hands) + 1
            /\ da.hands' # da.hands =>
                    /\ row'.type = "hand_end" /\ da.open
                    /\ Len(da.hands') = Len(da.hands) + 1 ]_vars

(* The log ended with hand #2 open, its players and a bet in it, and
   nothing was emitted. *)
C17_Witness ==
    /\ entries = MaxRows
    /\ hp.open /\ da.open
    /\ row.type = "bet"
    /\ da.current_hand.hand_number = 2
    /\ da.current_hand.preflop_actions # <<>>
    /\ da.current_hand.players # <<>>
    /\ hp.hands = <<>> /\ da.hands = <<>>

(* C18: a reconstructor's list of emitted hands changes by appending alone:
   every hand_end read with a hand open puts that hand behind the hands
   already emitted, which stay as they are and where they are, and no other
   row changes the list; so hand i of the list is the hand closed by the
   i-th such hand_end, whatever the hand numbers. *)
C18_EncounterOrder ==
    [][ ReadsRow =>
            /\ IF row'.type = "hand_end" /\ hp.open
               THEN /\ Len(hp.hands') = Len(hp.hands) + 1
                    /\ SubSeq(hp.hands', 1, Len(hp.hands)) = hp.hands
                    /\ hp.hands'[Len(hp.hands')].hand_number = hp.current_hand.hand_number
                    /\ hp.hands'[Len(hp.hands')].players = hp.current_hand.players
               ELSE hp.hands' = hp.hands
            /\ IF row'.type = "hand_end" /\ da.open
               THEN da.hands' = Append(da.hands, da.current_hand)
               ELSE da.hands' = da.hands ]_vars

(* Hand #2 was opened and closed in front of hand #1, and the list has
   them in that order. *)
C18_Witness ==
    /\ Len(da.hands) = 2 /\ Len(hp.hands) = 2
    /\ da.hands[1].hand_number = 2 /\ da.hands[2].hand_number = 1
    /\ hp.hands[1].hand_number = 2 /\ hp.hands[2].hand_number = 1

(* The place of a street in the order of the streets. *)
StreetNo == [preflop |-> 0, flop |-> 1, turn |-> 2, river |-> 3]

(* The action lists of a hand, by street. *)
ActionsOf(hand, street) ==
    CASE street = "preflop" -> hand.preflop_actions
      [] street = "flop" -> hand.flop_actions
      [] street = "turn" -> hand.turn_actions
      [] street = "river" -> hand.river_actions

(* C19: in parse_hands_with_actions the street is preflop behind every
   hand_start; a row read within an open hand never takes the street back
   in the order preflop < flop < turn < river; and an action row read
   within an open hand adds one action, the player and type of the row, at
   the end of the list of the street the row is read in, and leaves the
   lists of the other streets alone. *)
C19_StreetOrder ==
    [][ ReadsRow =>
            /\ row'.type = "hand_start" => da'.current_street = "preflop"
            /\ (da.open /\ row'.type # "hand_start") =>
                    StreetNo[da'.current_street] >= StreetNo[da.current_street]
            /\ (da.open /\ row'.type \in ActionTypes) =>
                    /\ da'.current_street = da.current_street
                    /\ \A street \in DOMAIN StreetNo :
                        ActionsOf(da'.current_hand, street) =
                            IF street = da.current_street
                            THEN Append(ActionsOf(da.current_hand, street),
                                        [player |-> row'.player,
                                         action_type |-> row'.type,
                                         amount |-> row'.amount])
                            ELSE ActionsOf(da.current_hand, street) ]_vars

(* What a player of the open hand has invested, 0 for a name that is not a
   player of it. *)
InvestedOf(hand, name) ==
    LET i == IndexOf(hand.players, name)
    IN  IF i = 0 THEN 0 ELSE hand.players[i].invested

(* C20: within an open hand no row other than an uncalled_bet lowers what a
   player has invested, a repeated player_stacks row included, in either
   reconstructor. *)
C20_InvestedMonotone ==
    [][ (ReadsRow /\ row'.type \notin {"hand_start", "hand_end", "uncalled_bet"}) =>
            \A name \in Raw :
                /\ hp.open => InvestedOf(hp'.current_hand, name)
                                >= InvestedOf(hp.current_hand, name)
                /\ da.open => InvestedOf(da'.current_hand, name)
                                >= InvestedOf(da.current_hand, name) ]_vars

(* C21: an action row that names a player who is not among the players of
   the open hand is recorded all the same: parse_hands_with_actions puts the
   action, the name as the row gives it, at the end of the list of the
   current street, leaves the players of the hand - their names, stacks and
   investments - as they were and keeps the hand open; parse_hands leaves
   its players alone too; and the next row of the log can be read. *)
C21_AbsentPlayerAction ==
    /\ [](entries < MaxRows => ENABLED NextSeats)
    /\ [][ (ReadsRow /\ row'.type \in ActionTypes) =>
            /\ (da.open /\ IndexOf(da.current_hand.players, row'.player) = 0) =>
                    /\ da'.open
                    /\ da'.current_street = da.current_street
                    /\ da'.current_hand.players = da.current_hand.players
                    /\ ActionsOf(da'.current_hand, da.current_street) =
                            Append(ActionsOf(da.current_hand, da.current_street),
                                   [player |-> row'.player,
                                    action_type |-> row'.type,
                                    amount |-> row'.amount])
            /\ (hp.open /\ IndexOf(hp.current_hand.players, row'.player) = 0) =>
                    /\ hp'.open
                    /\ hp'.current_hand.players = hp.current_hand.players ]_vars

(* P1 and P2 are the players of the open hand, nobody has put in a chip,
   and the flop has the bet of P3 in its list. *)
C21_Witness ==
    /\ da.open /\ hp.open
    /\ row.type = "bet" /\ row.player = "P3"
    /\ Len(da.current_hand.players) = 2
    /\ IndexOf(da.current_hand.players, "P3") = 0
    /\ \A i \in DOMAIN da.current_hand.players :
            da.current_hand.players[i].invested = 0
    /\ da.current_hand.flop_actions =
            <<[player |-> "P3", action_type |-> "bet", amount |-> 4]>>
    /\ hp.current_hand.players = da.current_hand.players

(* A hand whose analysis faults: one of its street lists names a player the
   analyser looks up in the players of the hand and does not find. *)
Faults(hand) == AnalyzeHand(player_full_to_unified, hand, ZeroStats).raised

(* C22: a call of calculate_advanced_stats never ends in an error: a hand
   whose analysis faults is skipped, the loop goes on, and the counters of
   the call that returned are those of the list without the faulting hands,
   every other hand adding what it adds on its own. *)
C22_FaultIsolation ==
    /\ pc # "raised"
    /\ pc = "done" =>
            player_stats = Run(SelectSeq(hands, LAMBDA hand : ~Faults(hand)))

(* C23: a hand is what it was when its hand_end emitted it.  A row read
   behind that hand_end, of any type, leaves every emitted hand of either
   reconstructor as it is and where it is; and the analyser, called with the
   list parse_hands_with_actions emitted, holds that same list at every step
   of the call, the hands it keeps behind the filter among them, and leaves
   the reconstructors alone. *)
C23_SealedHandImmutable ==
    /\ [](pc # "idle" =>
            /\ hands = da.hands
            /\ filtered_hands = FilterHands(exclude_heads_up, da.hands))
    /\ [][ /\ ReadsRow =>
                /\ Len(da.hands') >= Len(da.hands)
                /\ \A i \in DOMAIN da.hands : da.hands'[i] = da.hands[i]
                /\ Len(hp.hands') >= Len(hp.hands)
                /\ \A i \in DOMAIN hp.hands : hp.hands'[i] = hp.hands[i]
           /\ pc # "idle" =>
                /\ hands' = hands /\ filtered_hands' = filtered_hands
                /\ da' = da /\ hp' = hp ]_vars

(* The hand of three players with the raise of P2 was emitted, another
   raise was read behind its hand_end, and the call over the emitted list
   returned with the raise counted for P2. *)
C23_Witness ==
    /\ pc = "done"
    /\ ~da.open
    /\ row.type = "raise"
    /\ Len(da.hands) = 1
    /\ Len(da.hands[1].players) = 3
    /\ Len(da.hands[1].preflop_actions) = 1
    /\ hands = da.hands
    /\ player_stats[Canonical("P2")].pfr_count = 1

(* The counters of the play behind the preflop raise; flop_hands and
   turn_hands, which count the streets a player acted on, are not among
   them. *)
PostflopFields ==
    {"cbet_opportunities", "cbets_made", "faced_cbet_count", "folded_to_cbet",
     "turn_cbet_opportunities", "turn_cbets_made", "faced_turn_cbet_count",
     "folded_to_turn_cbet", "threebetpot_opportunities", "cbet_after_3bet_made",
     "check_after_3bet_made", "donk_bet_opportunities", "donk_bets_made",
     "pfr_checked_to_opportunities", "pfr_checked_to_bets",
     "check_raise_opportunities", "check_raises_made"}

(* C24: a hand with no raise among its preflop actions has no aggressor, and
   its analysis leaves every postflop counter of every name as it was,
   whatever the flop holds. *)
C24_NoRaiseNoPostflop ==
    (Analysed /\ \A i \in DOMAIN LastHand.preflop_actions :
                    LastHand.preflop_actions[i].action_type # "raise") =>
        \A n \in Names : \A f \in PostflopFields : Delta(n, f) = 0

(* C25: the branches of the flop cbet block exclude each other.  The
   analysis of a hand adds at most 1 to cbet_opportunities and
   threebetpot_opportunities taken together and at most 1 to cbets_made,
   cbet_after_3bet_made and check_after_3bet_made taken together, never takes
   any of them back, and adds to them under no name but the aggressor's. *)
C25_CbetBranchesExclusive ==
    Analysed =>
        /\ TotalDelta(Names, "cbet_opportunities")
                + TotalDelta(Names, "threebetpot_opportunities") <= 1
        /\ TotalDelta(Names, "cbets_made")
                + TotalDelta(Names, "cbet_after_3bet_made")
                + TotalDelta(Names, "check_after_3bet_made") <= 1
        /\ \A n \in Names :
            \A f \in {"cbet_opportunities", "threebetpot_opportunities",
                      "cbets_made", "cbet_after_3bet_made", "check_after_3bet_made"} :
                /\ Delta(n, f) >= 0
                /\ Delta(n, f) > 0 =>
                        /\ Truthy(Aggressor(LastHand))
                        /\ Aggressor(LastHand) \in PlayerNames(LastHand)
                        /\ n = Canonical(Aggressor(LastHand))

(* In a 3-bet pot the 3-bettor P2 checked first, P1 bet and P2 raised: P2
   has one 3-bet-pot opportunity and one check behind the 3-bet, and no cbet
   of either kind. *)
C25_Witness ==
    /\ Analysed
    /\ player_full_to_unified = <<>>
    /\ Is3betPot(LastHand) /\ Aggressor(LastHand) = "P2"
    /\ Len(LastHand.flop_actions) = 3
    /\ LastHand.flop_actions[1] = Act("P2", "check")
    /\ LastHand.flop_actions[2] = Act("P1", "bet")
    /\ LastHand.flop_actions[3] = Act("P2", "raise")
    /\ Delta("P2", "threebetpot_opportunities") = 1
    /\ Delta("P2", "check_after_3bet_made") = 1
    /\ Delta("P2", "cbet_after_3bet_made") = 0
    /\ Delta("P2", "cbet_opportunities") = 0

(* The places of the raises of a list. *)
RaisesOf(actions) == {i \in DOMAIN actions : actions[i].action_type = "raise"}

(* C26: the pot of a hand is a 3-bet pot if and only if its preflop list
   has two raises or more; the aggressor is the player of the second raise
   in a 3-bet pot and of the first raise otherwise, and a third or later
   raise does not move it.  The analysis credits the flop opportunity of the
   hand to that player: threebetpot_opportunities in a 3-bet pot,
   cbet_opportunities otherwise, 1 under the aggressor's name when the
   aggressor acted on the flop and nothing under any other name. *)
C26_AggressorAssignment ==
    Analysed =>
        LET pre == LastHand.preflop_actions
            raises == Cardinality(RaisesOf(pre))
            expected == IF raises >= 2 THEN RaiserNo(pre, 2) ELSE RaiserNo(pre, 1)
            field == IF raises >= 2 THEN "threebetpot_opportunities"
                                    ELSE "cbet_opportunities"
            other == IF raises >= 2 THEN "cbet_opportunities"
                                    ELSE "threebetpot_opportunities"
        IN  /\ Is3betPot(LastHand) <=> raises >= 2
            /\ raises = 0 => Aggressor(LastHand) = None
            /\ raises >= 1 => expected = {Aggressor(LastHand)}
            /\ TotalDelta(Names, other) = 0
            /\ \A n \in Names :
                    Delta(n, field) =
                        One(\E a \in expected :
                                /\ a \in ActionPlayers(LastHand.flop_actions)
                                /\ n = Canonical(a))

(* P1 opened, P2 made the 3-bet, P3 the 4-bet and P1 the 5-bet; on the flop
   P2 bet and P1 folded: the cbet behind the 3-bet is P2's, and neither P3
   nor P1 has an opportunity. *)
C26_Witness ==
    /\ Analysed
    /\ player_full_to_unified = <<>>
    /\ LastHand.preflop_actions = <<Act("P1", "raise"), Act("P2", "raise"),
                                    Act("P3", "raise"), Act("P1", "raise")>>
    /\ LastHand.flop_actions = <<Act("P2", "bet"), Act("P1", "fold")>>
    /\ Delta("P2", "threebetpot_opportunities") = 1
    /\ Delta("P2", "cbet_after_3bet_made") = 1
    /\ Delta("P1", "threebetpot_opportunities") = 0
    /\ Delta("P3", "threebetpot_opportunities") = 0

(* The players of the hand other than the aggressor who acted on the flop
   of a hand that has an aggressor. *)
DonkCandidates ==
    IF AggressorOf(LastHand) = {} THEN {}
    ELSE (PlayerNames(LastHand) \cap ActionPlayers(LastHand.flop_actions))
            \ AggressorOf(LastHand)

(* C27: the analysis of a hand adds to donk_bet_opportunities exactly 1 for
   every player of the hand other than the aggressor who has an action in
   the flop list, the player who makes the donk bet among them, and nothing
   for anybody else. *)
C27_DonkOpportunityOnce ==
    Analysed =>
        \A n \in Names :
            Delta(n, "donk_bet_opportunities") = CountOf(n, DonkCandidates)

(* The player of the first bet or raise of the flop, when the hand has an
   aggressor, that player is another one, and the aggressor has no action
   on the flop in front of that bet. *)
DonkBettors ==
    LET flop == LastHand.flop_actions
    IN  {flop[i].player : i \in
            {i \in FirstBetAt(flop) :
                /\ AggressorOf(LastHand) # {}
                /\ \A j \in 1..i : flop[j].player \notin AggressorOf(LastHand)}}

(* C28: the analysis of a hand adds to donk_bets_made at most once: 1 for
   the player of the hand who is not the aggressor and makes the first bet
   or raise of the flop before the aggressor has acted on the flop, and
   nothing otherwise; a bet behind the aggressor's check is no donk bet. *)
C28_DonkBetBeforeAggressor ==
    Analysed =>
        /\ TotalDelta(Names, "donk_bets_made") <= 1
        /\ \A n \in Names :
                Delta(n, "donk_bets_made") = CountOf(n, DonkBettors)

(* The place of the aggressor's first action on the flop, as a set, when it
   is a check. *)
AggressorCheckAt ==
    LET flop == LastHand.flop_actions
    IN  {i \in DOMAIN flop :
            /\ flop[i].player \in AggressorOf(LastHand)
            /\ flop[i].action_type = "check"
            /\ \A j \in 1..(i - 1) : flop[j].player \notin AggressorOf(LastHand)}

(* The places of the first actions behind that check of the players of the
   hand other than the aggressor, in a hand whose analysis counted no
   check_after_3bet_made. *)
CheckedToPlaces ==
    LET flop == LastHand.flop_actions
    IN  IF TotalDelta(Names, "check_after_3bet_made") > 0 THEN {}
        ELSE {j \in DOMAIN flop :
                /\ flop[j].player \in PlayerNames(LastHand) \ AggressorOf(LastHand)
                /\ \E c \in AggressorCheckAt :
                        /\ j > c
                        /\ \A k \in (c + 1)..(j - 1) : flop[k].player # flop[j].player}

(* C29: pfr_checked_to_opportunities grows only in a hand in which the
   first flop action of the aggressor is a check that was not counted as
   check_after_3bet_made; there each other player of the hand gets 1 for
   the first action behind that check, and 1 in pfr_checked_to_bets if and
   only if that action is a bet or a raise. *)
C29_BetWhenCheckedTo ==
    Analysed =>
        \A n \in Names :
            /\ Delta(n, "pfr_checked_to_opportunities") =
                    Cardinality({j \in CheckedToPlaces :
                        Canonical(LastHand.flop_actions[j].player) = n})
            /\ Delta(n, "pfr_checked_to_bets") =
                    Cardinality({j \in CheckedToPlaces :
                        /\ Canonical(LastHand.flop_actions[j].player) = n
                        /\ LastHand.flop_actions[j].action_type \in {"bet", "raise"}})

(* The aggressor of the hand, when the aggressor is a player of it and made
   the first bet or raise of the flop: the flop cbet. *)
FlopCbettor ==
    {a \in AggressorOf(LastHand) \cap PlayerNames(LastHand) :
        \E i \in FirstBetAt(LastHand.flop_actions) :
            LastHand.flop_actions[i].player = a}

(* C30: the turn cbet counters change only in a hand in which the aggressor
   made the flop cbet and the turn list has an action.  In such a hand the
   aggressor gets turn_cbet_opportunities 1 and turn_cbets_made 1 for the
   first bet or raise of the turn, turn_cbet_opportunities 1 alone for a turn
   action without it, and nothing without a turn action; nobody else gets
   either; and a faced or folded turn cbet is counted only behind a turn
   cbet made. *)
C30_DoubleBarrelGating ==
    Analysed =>
        LET turn == LastHand.turn_actions
            barrel(a) == \E i \in FirstBetAt(turn) : turn[i].player = a
        IN  \A n \in Names :
            /\ Delta(n, "turn_cbet_opportunities") =
                    One(\E a \in FlopCbettor :
                            n = Canonical(a) /\ a \in ActionPlayers(turn))
            /\ Delta(n, "turn_cbets_made") =
                    One(\E a \in FlopCbettor : n = Canonical(a) /\ barrel(a))
            /\ Delta(n, "faced_turn_cbet_count") \in {0, 1}
            /\ Delta(n, "folded_to_turn_cbet") \in {0, Delta(n, "faced_turn_cbet_count")}
            /\ Delta(n, "faced_turn_cbet_count") > 0 =>
                    \E a \in FlopCbettor : barrel(a)

(* P1 opened, bet the flop and was called; on the turn P2 checked, P1 bet
   again and P2 folded: the double barrel is P1's, and P2 faced it and
   folded. *)
C30_Witness ==
    /\ Analysed
    /\ player_full_to_unified = <<>>
    /\ LastHand.preflop_actions = <<Act("P1", "raise")>>
    /\ LastHand.flop_actions = <<Act("P1", "bet"), Act("P2", "call")>>
    /\ LastHand.turn_actions = <<Act("P2", "check"), Act("P1", "bet"), Act("P2", "fold")>>
    /\ Delta("P1", "turn_cbet_opportunities") = 1
    /\ Delta("P1", "turn_cbets_made") = 1
    /\ Delta("P2", "faced_turn_cbet_count") = 1
    /\ Delta("P2", "folded_to_turn_cbet") = 1

(* The places of the first action of a player other than a behind the first
   bet or raise of a list, when that bet is a's. *)
AnswerAt(actions, a) ==
    UNION {ResponseAt(actions, b, a) :
            b \in {b \in FirstBetAt(actions) : actions[b].player = a}}

(* C31: the analysis of a hand counts a faced cbet for one player at most,
   and a faced turn cbet for one player at most: the player of the first
   action of somebody other than the aggressor behind the aggressor's bet,
   however many players act behind it; the later ones get nothing. *)
C31_FirstResponderOnly ==
    Analysed =>
        /\ TotalDelta(Names, "faced_cbet_count") <= 1
        /\ TotalDelta(Names, "faced_turn_cbet_count") <= 1
        /\ \A n \in Names :
            /\ Delta(n, "faced_cbet_count") =
                    One(\E a \in FlopCbettor :
                        \E j \in AnswerAt(LastHand.flop_actions, a) :
                            n = Canonical(LastHand.flop_actions[j].player))
            /\ Delta(n, "faced_turn_cbet_count") =
                    One(\E a \in FlopCbettor :
                        \E j \in AnswerAt(LastHand.turn_actions, a) :
                            n = Canonical(LastHand.turn_actions[j].player))

(* Three players saw P1 bet the flop and bet the turn, P2 called and P3
   folded both times: P2 alone faced the cbet and the turn cbet. *)
C31_Witness ==
    /\ Analysed
    /\ player_full_to_unified = <<>>
    /\ Len(LastHand.players) = 3
    /\ LastHand.preflop_actions = <<Act("P1", "raise")>>
    /\ LastHand.flop_actions = <<Act("P1", "bet"), Act("P2", "call"), Act("P3", "fold")>>
    /\ LastHand.turn_actions = <<Act("P1", "bet"), Act("P2", "check"), Act("P3", "fold")>>
    /\ Delta("P2", "faced_cbet_count") = 1
    /\ Delta("P2", "faced_turn_cbet_count") = 1
    /\ Delta("P3", "faced_cbet_count") = 0
    /\ Delta("P3", "faced_turn_cbet_count") = 0
    /\ Delta("P3", "folded_to_turn_cbet") = 0

(* The place in the list of the call of the hand the last iteration
   analysed: the filter keeps the order of the hands. *)
LastHandAt ==
    CHOOSE i \in DOMAIN hands :
        /\ Kept(exclude_heads_up, hands[i])
        /\ Cardinality({j \in 1..i : Kept(exclude_heads_up, hands[j])}) = idx

(* C32: the analysis of a hand that parse_hands_with_actions emitted adds
   to showdown_count exactly 1 for every player of the hand with a show
   entry read while the hand was open, wherever in the hand it was read, and
   nothing for anybody else; and showdown_count never exceeds
   hands_played. *)
C32_Wtsd ==
    /\ \A n \in Names :
            player_stats[n].showdown_count <= player_stats[n].hands_played
    /\ Analysed =>
            \A n \in Names :
                Delta(n, "showdown_count") = CountOf(n, shows.hands[LastHandAt])

(* The players with a call, a bet or a raise in a list. *)
Voluntary(actions) ==
    {actions[i].player :
        i \in {i \in DOMAIN actions :
                actions[i].action_type \in {"call", "bet", "raise"}}}

(* C33: the analysis of a hand adds to vpip_count exactly 1 for every
   player of the hand with a call, a bet or a raise in the preflop list,
   however many of them, and nothing for a player whose preflop actions are
   blinds, checks and folds alone, or who has none. *)
C33_Vpip ==
    Analysed =>
        \A n \in Names :
            Delta(n, "vpip_count") = CountOf(n, Voluntary(LastHand.preflop_actions))

(* P2 posted the small blind and called, P3 posted the big blind: one hand
   each, VPIP for P2 alone. *)
C33_Witness ==
    /\ Analysed
    /\ player_full_to_unified = <<>>
    /\ Len(LastHand.players) = 3
    /\ Len(LastHand.preflop_actions) = 3
    /\ LastHand.preflop_actions[1].action_type = "small_blind"
    /\ LastHand.preflop_actions[1].player = "P2"
    /\ LastHand.preflop_actions[2].action_type = "big_blind"
    /\ LastHand.preflop_actions[2].player = "P3"
    /\ LastHand.preflop_actions[3].action_type = "call"
    /\ LastHand.preflop_actions[3].player = "P2"
    /\ Delta("P2", "vpip_count") = 1
    /\ Delta("P3", "vpip_count") = 0
    /\ Delta("P3", "hands_played") = 1

(***************************************************************************)
(* The line classifier, extract_hand_info.  A log line is the sequence of  *)
(* its space-separated tokens: a phrase of the log's wording (Text), a     *)
(* quoted player name, a run of digits, a card, "#n", "(id: x)",           *)
(* 'dealer: "x"', a stack entry '#n "x" (stack)' and a full stop.          *)
(***************************************************************************)
Text(v) == [k |-> "text", v |-> v]
Quoted(v) == [k |-> "quoted", v |-> v]
Num(v) == [k |-> "num", v |-> v]
Card(v) == [k |-> "card", v |-> v]
Hash(v) == [k |-> "hash", v |-> v]
HandId(v) == [k |-> "id", v |-> v]
DealerIs(v) == [k |-> "dealer", v |-> v]
Seat(name, stack) == [k |-> "seat", v |-> [name |-> name, stack |-> stack]]
FullStop == [k |-> "stop", v |-> "."]

Kinds == {"quoted", "num", "card", "hash", "id", "dealer", "seat", "stop"}

(* One element of a pattern against one token: a kind of token, the word
   "hand" that ends both hand markers, or a phrase. *)
Fits(tok, m) ==
    IF m = "hand"
    THEN tok.k = "text" /\ tok.v \in {"-- starting hand", "-- ending hand"}
    ELSE IF m \in Kinds THEN tok.k = m
    ELSE tok.k = "text" /\ tok.v = m

(* re.search(pattern, entry): the place of the leftmost match, 0 for None. *)
re_search(pat, entry) ==
    First({i \in DOMAIN entry :
              /\ i + Len(pat) - 1 <= Len(entry)
              /\ \A j \in DOMAIN pat : Fits(entry[i + j - 1], pat[j])})

(* 'marker' in entry, ' marker' in entry and ' marker ' in entry. *)
Contains(entry, text) == \E i \in DOMAIN entry : Fits(entry[i], text)
ContainsAfterSpace(entry, text) ==
    \E i \in DOMAIN entry : i > 1 /\ Fits(entry[i], text)
ContainsSpaced(entry, text) ==
    \E i \in DOMAIN entry : 1 < i /\ i < Len(entry) /\ Fits(entry[i], text)

(* entry.startswith(marker) *)
StartsWith(entry, text) == entry # <<>> /\ Fits(entry[1], text)

(* re.findall of the card pattern. *)
RECURSIVE FindCards(_)
FindCards(entry) ==
    IF entry = <<>> THEN <<>>
    ELSE IF Head(entry).k = "card"
    THEN <<Head(entry).v>> \o FindCards(Tail(entry))
    ELSE FindCards(Tail(entry))

(* {player[1]: int(player[2]) for player in players}: a later entry of a
   name replaces the stack and keeps the place. *)
RECURSIVE FindStacks(_, _)
FindStacks(stacks, entry) ==
    IF entry = <<>> THEN stacks
    ELSE IF Head(entry).k # "seat" THEN FindStacks(stacks, Tail(entry))
    ELSE LET i == First({j \in DOMAIN stacks : stacks[j].name = Head(entry).v.name})
         IN  FindStacks(IF i = 0 THEN Append(stacks, Head(entry).v)
                        ELSE [stacks EXCEPT ![i] = Head(entry).v],
                        Tail(entry))

(* '"([^"]+)" shows a (.+)\.': the leftmost quoted name before "shows a"
   with something between the phrase and the last full stop of the line. *)
LastStop(entry) ==
    LET S == {i \in DOMAIN entry : entry[i].k = "stop"}
    IN  IF S = {} THEN 0 ELSE CHOOSE i \in S : \A j \in S : j <= i

ShowMatch(entry) ==
    First({i \in DOMAIN entry :
              /\ i + 1 <= Len(entry)
              /\ Fits(entry[i], "quoted") /\ Fits(entry[i + 1], "shows a")
              /\ LastStop(entry) > i + 2})

(* A rule of the shape '"player" phrase amount' and one of the shape
   '"player" phrase'. *)
(* A marker whose capture fails gives way to the bet rule. *)
PlayerAmount_FallsThrough(info, type, phrase, entry) ==
    LET m == re_search(<<"quoted", phrase, "num">>, entry)
        b == re_search(<<"quoted", "bets", "num">>, entry)
    IN  IF m # 0
        THEN [info EXCEPT !.type = type, !.player = entry[m].v,
                          !.amount = entry[m + 2].v]
        ELSE IF b # 0
        THEN [info EXCEPT !.type = "bet", !.player = entry[b].v,
                          !.amount = entry[b + 2].v]
        ELSE info

PlayerAmount(info, type, phrase, entry) ==
    LET m == re_search(<<"quoted", phrase, "num">>, entry)
    IN  IF m = 0 THEN info
        ELSE [info EXCEPT !.type = type, !.player = entry[m].v,
                          !.amount = entry[m + 2].v]

PlayerOnly(info, type, phrase, entry) ==
    LET m == re_search(<<"quoted", phrase>>, entry)
    IN  IF m = 0 THEN info
        ELSE [info EXCEPT !.type = type, !.player = entry[m].v]

extract_hand_info(entry) ==
    LET info == [Info("unknown") EXCEPT !.raw = entry]
    IN  IF Contains(entry, "-- starting hand")
        THEN LET m == re_search(<<"hand", "hash", "id">>, entry)
                 d == re_search(<<"dealer">>, entry)
                 started == IF m = 0 THEN info
                            ELSE [info EXCEPT !.type = "hand_start",
                                              !.hand_number = entry[m + 1].v]
             IN  IF d = 0 THEN started
                 ELSE [started EXCEPT !.dealer = entry[d].v]
        ELSE IF Contains(entry, "-- ending hand")
        THEN LET m == re_search(<<"hand", "hash">>, entry)
             IN  IF m = 0 THEN info
                 ELSE [info EXCEPT !.type = "hand_end",
                                   !.hand_number = entry[m + 1].v]
        ELSE IF Contains(entry, "Player stacks:")
        THEN [info EXCEPT !.type = "player_stacks",
                          !.stacks = FindStacks(<<>>, entry)]
        ELSE IF Contains(entry, "joined the game with a stack of")
        THEN PlayerAmount(info, "player_join",
                          "joined the game with a stack of", entry)
        ELSE IF Contains(entry, "posts a small blind of")
        THEN PlayerAmount(info, "small_blind", "posts a small blind of", entry)
        ELSE IF Contains(entry, "posts a big blind of")
        THEN PlayerAmount(info, "big_blind", "posts a big blind of", entry)
        ELSE IF StartsWith(entry, "Flop:")
        THEN [info EXCEPT !.type = "flop", !.cards = FindCards(entry)]
        ELSE IF StartsWith(entry, "Turn:")
        THEN [info EXCEPT !.type = "turn", !.cards = FindCards(entry)]
        ELSE IF StartsWith(entry, "River:")
        THEN [info EXCEPT !.type = "river", !.cards = FindCards(entry)]
        ELSE IF ContainsSpaced(entry, "calls")
        THEN PlayerAmount(info, "call", "calls", entry)
        ELSE IF ContainsSpaced(entry, "bets")
        THEN PlayerAmount(info, "bet", "bets", entry)
        ELSE IF ContainsSpaced(entry, "raises to")
        THEN PlayerAmount(info, "raise", "raises to", entry)
        ELSE IF ContainsAfterSpace(entry, "checks")
        THEN PlayerOnly(info, "check", "checks", entry)
        ELSE IF ContainsAfterSpace(entry, "folds")
        THEN PlayerOnly(info, "fold", "folds", entry)
        ELSE IF ContainsSpaced(entry, "shows a")
        THEN LET m == ShowMatch(entry)
             IN  IF m = 0 THEN info
                 ELSE [info EXCEPT
                          !.type = "show", !.player = entry[m].v,
                          !.cards = FindCards(SubSeq(entry, m + 2,
                                                     LastStop(entry) - 1))]
        ELSE IF ContainsSpaced(entry, "collected")
                /\ ContainsAfterSpace(entry, "from pot")
        THEN LET m == re_search(<<"quoted", "collected", "num", "from pot">>,
                                entry)
             IN  IF m = 0 THEN info
                 ELSE [info EXCEPT !.type = "pot_collected",
                                   !.player = entry[m].v,
                                   !.amount = entry[m + 2].v]
        ELSE IF Contains(entry, "Uncalled bet of")
        THEN LET m == re_search(<<"Uncalled bet of", "num", "returned to",
                                  "quoted">>, entry)
             IN  IF m = 0 THEN info
                 ELSE [info EXCEPT !.type = "uncalled_bet",
                                   !.amount = entry[m + 1].v,
                                   !.player = entry[m + 3].v]
        ELSE info

(* The lines of the log: one well-formed line of every rule, a line of
   other text and the empty line. *)
SoundLines ==
    {<<Text("-- starting hand"), Hash(1), HandId("abc"), DealerIs("P1")>>,
     <<Text("-- ending hand"), Hash(1)>>,
     <<Text("Player stacks:"), Seat("P1", 100), Seat("P2", 100)>>,
     <<Quoted("P2"), Text("joined the game with a stack of"), Num(100)>>,
     <<Quoted("P1"), Text("posts a small blind of"), Num(1)>>,
     <<Quoted("P2"), Text("posts a big blind of"), Num(2)>>,
     <<Text("Flop:"), Card("7d"), Card("Ks"), Card("6d")>>,
     <<Text("Turn:"), Card("2c")>>,
     <<Text("River:"), Card("Ah")>>,
     <<Quoted("P1"), Text("calls"), Num(2)>>,
     <<Quoted("P1"), Text("bets"), Num(4)>>,
     <<Quoted("P2"), Text("raises to"), Num(8)>>,
     <<Quoted("P2"), Text("checks")>>,
     <<Quoted("P1"), Text("folds")>>,
     <<Quoted("P2"), Text("shows a"), Card("Ah"), Card("Kh"), FullStop>>,
     <<Quoted("P2"), Text("collected"), Num(8), Text("from pot")>>,
     <<Text("Uncalled bet of"), Num(4), Text("returned to"), Quoted("P1")>>,
     <<Text("The admin updated the player"), Quoted("P1")>>,
     <<>>}

(* A line with one token missing. *)
Without(entry, i) ==
    [j \in 1..(Len(entry) - 1) |-> IF j < i THEN entry[j] ELSE entry[j + 1]]

BrokenLines ==
    UNION {{Without(entry, i) : i \in DOMAIN entry} : entry \in SoundLines}

(* Two lines in one, the markers of two rules in it. *)
JoinedLines == {a \o b : a \in SoundLines, b \in SoundLines}

(* A broken line with a well-formed one behind it. *)
PatchedLines ==
    {a \o b : a \in BrokenLines,
              b \in {<<Quoted("P1"), Text("bets"), Num(4)>>,
                     <<Quoted("P1"), Text("folds")>>,
                     <<Text("Uncalled bet of"), Num(4), Text("returned to"),
                       Quoted("P1")>>}}

(* A marker with nothing behind it that the rule could extract. *)
BareLines ==
    {<<Text("Player stacks:")>>,
     <<Text("Flop:")>>,
     <<Quoted("P2"), Text("shows a"), Text("Ah, Kh"), FullStop>>}

LogLines ==
    SoundLines \cup BrokenLines \cup JoinedLines \cup PatchedLines \cup BareLines

(* info = extract_hand_info(row['entry']) for every line of the pool. *)
Classified == {extract_hand_info(entry) : entry \in LogLines}

(* The classifier on one line, whatever was classified before it. *)
Classify(Rows, type) ==
    /\ \E info \in Rows :
        /\ info.type = type
        /\ row' = info
    /\ UNCHANGED <<analyzerVars, entries, hp, da, shows>>

NextLines ==
    \/ Classify(Classified, "hand_start")
    \/ Classify(Classified, "hand_end")
    \/ Classify(Classified, "player_stacks")
    \/ Classify(Classified, "player_join")
    \/ Classify(Classified, "small_blind")
    \/ Classify(Classified, "big_blind")
    \/ Classify(Classified, "flop")
    \/ Classify(Classified, "turn")
    \/ Classify(Classified, "river")
    \/ Classify(Classified, "call")
    \/ Classify(Classified, "bet")
    \/ Classify(Classified, "raise")
    \/ Classify(Classified, "check")
    \/ Classify(Classified, "fold")
    \/ Classify(Classified, "show")
    \/ Classify(Classified, "pot_collected")
    \/ Classify(Classified, "uncalled_bet")
    \/ Classify(Classified, "unknown")

SpecLines == Init /\ [][NextLines]_vars

(* The rules in their priority order, and the marker of each as the
   conditions of the chain test it: a phrase anywhere in the line, at
   its start, behind a space, or between two spaces. *)
Priority ==
    <<"hand_start", "hand_end", "player_stacks", "player_join", "small_blind",
      "big_blind", "flop", "turn", "river", "call", "bet", "raise", "check",
      "fold", "show", "pot_collected", "uncalled_bet">>

Phrase ==
    [hand_start |-> "-- starting hand", hand_end |-> "-- ending hand",
     player_stacks |-> "Player stacks:",
     player_join |-> "joined the game with a stack of",
     small_blind |-> "posts a small blind of",
     big_blind |-> "posts a big blind of",
     flop |-> "Flop:", turn |-> "Turn:", river |-> "River:",
     call |-> "calls", bet |-> "bets", raise |-> "raises to",
     check |-> "checks", fold |-> "folds", show |-> "shows a",
     pot_collected |-> "collected", uncalled_bet |-> "Uncalled bet of"]

PlacesOf(entry, phrase) ==
    {i \in DOMAIN entry : entry[i].k = "text" /\ entry[i].v = phrase}

Marked(type, entry) ==
    LET P == PlacesOf(entry, Phrase[type])
    IN  IF type \in {"flop", "turn", "river"} THEN 1 \in P
        ELSE IF type \in {"call", "bet", "raise", "show"}
        THEN P \ {1, Len(entry)} # {}
        ELSE IF type \in {"check", "fold"} THEN P \ {1} # {}
        ELSE IF type = "pot_collected"
        THEN /\ P \ {1, Len(entry)} # {}
             /\ PlacesOf(entry, "from pot") \ {1} # {}
        ELSE P # {}

EarliestRule(entry) == First({i \in DOMAIN Priority : Marked(Priority[i], entry)})

(* C34: the type of a classified line is never the type of a rule behind
   the earliest rule whose marker the line has: it is that rule's type
   when the line is made of well-formed lines, that type or unknown
   otherwise, and unknown when the line has no marker; and the event is
   the classifier's value on the line alone. *)
C34_FirstMatchWins ==
    LET e == EarliestRule(row.raw)
    IN  /\ e = 0 => row.type = "unknown"
        /\ e # 0 => row.type \in {Priority[e], "unknown"}
        /\ e # 0 /\ row.raw \in JoinedLines => row.type = Priority[e]
        /\ row = extract_hand_info(row.raw)

(* A line with a call behind a bet is a call, and a line whose call has no
   amount is unknown though a bet is behind it. *)
C34_Witness ==
    \/ /\ row.raw = <<Quoted("P1"), Text("bets"), Num(4),
                      Quoted("P1"), Text("calls"), Num(2)>>
       /\ row.type = "call"
    \/ /\ row.raw = <<Quoted("P1"), Text("calls"),
                      Quoted("P1"), Text("bets"), Num(4)>>
       /\ row.type = "unknown"

(* The fields an event of each type carries. *)
HasFields(info) ==
    /\ info.type \in {"player_join", "small_blind", "big_blind", "call", "bet",
                      "raise", "check", "fold", "show", "pot_collected",
                      "uncalled_bet"} => Truthy(info.player)
    /\ info.type = "player_stacks" => info.stacks # <<>>
    /\ info.type \in {"flop", "turn", "river", "show"} => info.cards # <<>>

(* C35: a line with a rule's marker and nothing the rule could extract is
   unknown: no classified line is an event of a type without the player,
   the stack entries or the cards of that type. *)
C35_MalformedIsUnknown == row.type # "unknown" => HasFields(row)

(* C36: a hand_start leaves a fresh hand open in both reconstructors,
   whether or not a hand was open: the number of the row, no players, no
   actions on any street, the street preflop; and it emits nothing, the
   hand it replaced included.  A hand opens by a hand_start alone and every
   emission closes the open hand, so the hands emitted are as many as the
   hand_end rows read with a hand open (the history shows.hands has one
   entry for each) and no more than the hand_start rows. *)
C36_RestartReplaces ==
    [][ ReadsRow =>
            /\ row'.type = "hand_start" =>
                    /\ hp'.open /\ da'.open
                    /\ hp.hands' = hp.hands /\ da.hands' = da.hands
                    /\ hp'.current_hand.hand_number = row'.hand_number
                    /\ hp'.current_hand.players = <<>>
                    /\ da'.current_hand.hand_number = row'.hand_number
                    /\ da'.current_hand.players = <<>>
                    /\ da'.current_hand.preflop_actions = <<>>
                    /\ da'.current_hand.flop_actions = <<>>
                    /\ da'.current_hand.turn_actions = <<>>
                    /\ da'.current_hand.river_actions = <<>>
                    /\ da'.current_street = "preflop"
            /\ (hp'.open /\ ~hp.open) \/ (da'.open /\ ~da.open)
                    => row'.type = "hand_start"
            /\ Len(hp.hands') > Len(hp.hands) => hp.open /\ ~hp'.open
            /\ Len(da.hands') > Len(da.hands) => da.open /\ ~da'.open
            /\ Len(hp.hands') = Len(shows.hands')
            /\ Len(da.hands') = Len(shows.hands') ]_vars

(* Hand #1 was opened with its players, hand #2 was opened over it and
   closed: the one emitted hand is #2, with no players. *)
C36_Witness ==
    /\ entries = 4 /\ row.type = "hand_end"
    /\ Len(da.hands) = 1 /\ Len(hp.hands) = 1
    /\ da.hands[1].hand_number = 2 /\ da.hands[1].players = <<>>
    /\ hp.hands[1].hand_number = 2 /\ hp.hands[1].players = <<>>
    /\ da.hands[1].dealer = None

(* C37: at every point of calculate_advanced_stats every player's count of
   a metric is within the count of its opportunities, for each of the ten
   opportunity-based metrics. *)
C37_WithinOpportunities ==
    \A n \in Names :
        LET s == player_stats[n]
        IN  /\ s.threebets <= s.faced_raise_count
            /\ s.fourbets <= s.faced_3bet_count
            /\ s.called_3bet <= s.faced_3bet_count
            /\ s.cbets_made <= s.cbet_opportunities
            /\ s.cbet_after_3bet_made + s.check_after_3bet_made
                    <= s.threebetpot_opportunities
            /\ s.donk_bets_made <= s.donk_bet_opportunities
            /\ s.pfr_checked_to_bets <= s.pfr_checked_to_opportunities
            /\ s.check_raises_made <= s.check_raise_opportunities
            /\ s.turn_cbets_made <= s.turn_cbet_opportunities
            /\ s.folded_to_turn_cbet <= s.faced_turn_cbet_count

(* A hand with a 3-bet by P2 and a 4-bet by P1, a check-raise of P1 over
   P2's flop bet, and a fold of P1 to P2's turn bet. *)
C37_Witness ==
    /\ Analysed
    /\ player_full_to_unified = [p \in {} |-> "Hero"]
    /\ LastHand.preflop_actions = <<Act("P1", "raise"), Act("P2", "raise"),
                                    Act("P1", "raise")>>
    /\ Delta("P2", "threebets") = 1
    /\ Delta("P1", "fourbets") = 1
    /\ Delta("P2", "cbet_after_3bet_made") = 1
    /\ Delta("P1", "check_raises_made") = 1
    /\ Delta("P2", "turn_cbets_made") = 1
    /\ Delta("P1", "folded_to_turn_cbet") = 1

(* C38: no hand credits one player with a 4-bet and with a call of the
   3-bet, and every player's fourbets and called_3bet together are within
   faced_3bet_count, whatever the preflop list. *)
C38_FourbetOrCall ==
    /\ Analysed => \A n \in Names :
            Delta(n, "fourbets") + Delta(n, "called_3bet")
                <= Delta(n, "faced_3bet_count")
    /\ \A n \in Names :
            player_stats[n].fourbets + player_stats[n].called_3bet
                <= player_stats[n].faced_3bet_count

(* C39: every player's turn_cbet_opportunities are within the flop cbets
   the player made, in single-raised and in 3-bet pots together; a hand
   credits the opportunity once at most, to the name of the player who made
   the flop cbet of that hand, and to nobody when there was none. *)
C39_TurnOpportunityBehindCbet ==
    /\ \A n \in Names :
            player_stats[n].turn_cbet_opportunities
                <= player_stats[n].cbets_made + player_stats[n].cbet_after_3bet_made
    /\ Analysed =>
            /\ TotalDelta(Names, "turn_cbet_opportunities") <= 1
            /\ \A n \in Names :
                    Delta(n, "turn_cbet_opportunities")
                        <= Delta(n, "cbets_made") + Delta(n, "cbet_after_3bet_made")

(* P1 made the flop cbet and checked the turn: the opportunity is P1's and
   nobody else's, though P2 bet the turn. *)
C39_Witness ==
    /\ Analysed
    /\ player_full_to_unified = [p \in {} |-> "Hero"]
    /\ Delta("P1", "cbets_made") = 1
    /\ Delta("P1", "turn_cbet_opportunities") = 1
    /\ Delta("P1", "turn_cbets_made") = 0
    /\ Delta("P2", "turn_hands") = 1
    /\ Delta("P2", "turn_cbet_opportunities") = 0

(* C40: the two reconstructors have emitted the same number of hands, and
   the hands in the same place have the same hand_number, the same players
   in the same order with the same initial_stack, invested and hole cards,
   the same winner and the same pot. *)
C40_ReconstructorsAgree ==
    /\ Len(hp.hands) = Len(da.hands)
    /\ \A i \in DOMAIN hp.hands \cap DOMAIN da.hands :
            /\ hp.hands[i].hand_number = da.hands[i].hand_number
            /\ hp.hands[i].players = da.hands[i].players
            /\ hp.hands[i].winner = da.hands[i].winner
            /\ hp.hands[i].pot = da.hands[i].pot


====
